---- MODULE Spec2Model ----
(***************************************************************************)
(* A model of sec51/twofactor: the TOTP engine (token derivation, +-1 step *)
(* resynchronisation, lockout and back-off), its serialisation through the *)
(* crypto engine, and the integer codecs both rest on; the crypto engine   *)
(* by itself, one call at a time and with threads inside                   *)
(* fetchAndIncrement; the recovery codes; and increment over int64.        *)
(* Each part has its own specification, in which the variables of the      *)
(* other parts stay at rest.                                               *)
(*                                                                         *)
(* Representation.                                                         *)
(*   - Strings and byte slices are sequences of byte values 0..255.        *)
(*   - Wall-clock time is counted in ticks, TicksPerSecond to the second,  *)
(*     so that time.Now() carries a sub-second part that Unix() drops.     *)
(*     One call of a method reads the clock once: a call is instantaneous. *)
(*   - TLC's integers are 32 bits wide.  A Go int is therefore kept, where *)
(*     it passes through the codec, as a pair <<hi, lo>> of value          *)
(*     hi * 2^16 + lo with lo in 0..65535 (hi < 0 for a negative int), and *)
(*     a uint64 as four 16-bit limbs, most significant first.              *)
(*   - HMAC, HKDF and secretbox are symbolic: the truncated HMAC value of  *)
(*     a counter is read from a table chosen arbitrarily in Init (so two   *)
(*     counters may or may not collide), a nonce is the tuple of what it   *)
(*     was derived from, a sealed box is the triple (key, nonce, plain).   *)
(*   - A bcrypt hash is the triple ("bcrypt", salt, password).             *)
(*   - A float64 occurs only with an integral value, kept in limbs; the    *)
(*     conversion to float64 and the sum n + 0.5 round to 53 bits.         *)
(***************************************************************************)
EXTENDS Integers, Sequences, FiniteSets, TLC

VARIABLES
    now,        \* the wall clock, in ticks since the UNIX epoch
    intSize,    \* width of the build's int: 32 or 64 bits
    hmacTable,  \* truncated HMAC value per counter residue, for otp's key and hash
    otpNil,     \* TRUE when the *Totp the caller holds is nil
    otp,        \* the fields of the Totp struct
    files,      \* the key files of the context on disk (<<>>: no such file)
    stored,     \* the bytes the last ToBytes returned
    storedFrom, \* the Totp fields those bytes were made from
    last,       \* the call just made: its name, argument, error and result, and the
                \* failure count it found
    engines,    \* the CryptoEngine instances of the process, by number
    outbox,     \* the encrypted records produced so far, in order
    received,   \* the Decrypt or TOTPFromBytes call just made on a record
    sharedEngine, \* a CryptoEngine used by several threads at once
    counterMutex, \* the thread holding sharedEngine's counterMutex
    threads,    \* each thread's position in fetchAndIncrement and its locals
    issued,     \* the counter strings fetchAndIncrement has returned, in order
    codes,      \* the recovery codes GenerateRecoveryCodes returned
    hashed,     \* the bcrypt hashes the caller keeps
    recovered,  \* the UseRecoveryCode call just made
    timeStep,   \* the increment call just made: ts, stepSize and the result
    converted,  \* the codec call just made: its argument and what came back
    mutex,      \* the thread holding sharedEngine's mutex
    preSharedKeysMap, \* sharedEngine's cache of pre-shared keys, by peer
    keyCall     \* the InitCryptoEngine or writeFile call just made on the key files

\* the Totp, the clock and the key files
totpVars == <<now, intSize, hmacTable, otpNil, otp, files, stored, storedFrom, last>>

\* the crypto engines used one call at a time
engineVars == <<engines, outbox, received>>

\* the crypto engine shared by threads
counterVars == <<sharedEngine, counterMutex, threads, issued>>

\* the recovery codes
recoveryVars == <<codes, hashed, recovered>>

\* the calls of pure functions
pureVars == <<timeStep, converted>>

\* the cache of pre-shared keys of the engine shared by threads
cacheVars == <<mutex, preSharedKeysMap>>

vars == <<totpVars, engineVars, counterVars, recoveryVars, pureVars, cacheVars, keyCall>>

(***************************************************************************)
(* Bounds of the model.                                                    *)
(***************************************************************************)
TicksPerSecond == 2
\* the clock runs from a start time to Horizon steps of stepSize later
HorizonSteps == 12
\* the HMAC table repeats with this period over the counters
OraclePeriod == 3
\* truncated HMAC values are drawn from 0..MaxHmacValue
MaxHmacValue == 2
\* freshly generated key files hold one of the values 1..MaxKeyValue
MaxKeyValue == 2
\* the CryptoEngine instances of one process
MaxEngines == 2
\* the encrypted records kept
MaxMessages == 2

(***************************************************************************)
(* Program constants.                                                      *)
(***************************************************************************)
backOffMinutes == 5
maxFailures == 3
counterSize == 8
messageType == 0
tcpVersion == 0
nonceSize == 24
defaultStepSize == 30
secretboxOverhead == 16

SHA1 == "SHA1"
SHA256 == "SHA256"
SHA512 == "SHA512"
Hashes == {SHA1, SHA256, SHA512}

\* crypto.Hash.Size(): the digest length, which NewTOTP uses as key length
HashSize(h) == CASE h = SHA1 -> 20 [] h = SHA256 -> 32 [] h = SHA512 -> 64

ErrNone == "nil"
errInitializationFailed == "TOTP has not been initialized correctly"
errLockDown == "the verification is locked down, because of too many trials"
errTokenMismatch == "tokens mismatch"
errEmptyToken == "user-provided token is empty"

Byte == 0..255
Limb == 256 * 256

(***************************************************************************)
(* Go integers.                                                            *)
(***************************************************************************)
\* a Go int of small magnitude as the pair <<hi, lo>>
GoInt(n) == <<n \div Limb, n % Limb>>

\* the value of a pair, where it fits TLC's integers
IntOf(w) == w[1] * Limb + w[2]

\* a small natural number as a uint64 in limbs
U64(n) == <<0, 0, n \div Limb, n % Limb>>

\* the value of a uint64 whose two upper limbs are zero
NatOf(u) == u[3] * Limb + u[4]

\* byte((n >> k) & 0xFF) of a uint64 in limbs, k a multiple of 8
ByteOfU64(u, k) == (u[4 - (k \div 16)] \div (IF k % 16 = 8 THEN 256 ELSE 1)) % 256

\* u + 1 on four limbs, the carry starting at limb i
RECURSIVE IncU64At(_, _)
IncU64At(u, i) ==
    IF i = 0 THEN u
    ELSE IF u[i] = Limb - 1 THEN IncU64At([u EXCEPT ![i] = 0], i - 1)
    ELSE [u EXCEPT ![i] = @ + 1]

\* the limbs from index i on of a / b, for an int64 a >= 0 in limbs and an
\* int b with 0 < b < 2^15, carry being what the limbs before i have left
RECURSIVE DivAt(_, _, _, _)
DivAt(a, b, i, carry) ==
    IF i > 4 THEN <<>>
    ELSE LET cur == carry * Limb + a[i]
         IN  <<cur \div b>> \o DivAt(a, b, i + 1, cur % b)

\* a / int64(b) in Go, where a >= 0 and b > 0
DivInt64(a, b) == DivAt(a, b, 1, 0)

\* a % int64(b) in Go, where a >= 0 and b > 0
RECURSIVE ModAt(_, _, _, _)
ModAt(a, b, i, carry) == IF i > 4 THEN carry ELSE ModAt(a, b, i + 1, (carry * Limb + a[i]) % b)

RECURSIVE BitLen(_)
BitLen(n) == IF n = 0 THEN 0 ELSE 1 + BitLen(n \div 2)

RECURSIVE Pow2(_)
Pow2(k) == IF k = 0 THEN 1 ELSE 2 * Pow2(k - 1)

\* the bits of a float64's significand
SignificandBits == 53

\* float64(q) of an int64 q >= 0: a float64 with an integral value is written
\* as that value in limbs.  A q of more than 53 bits is rounded to 53, to
\* the nearest and, halfway, to the even significand
Float64(q) ==
    LET k == BitLen(q[1]) - (SignificandBits - 48)
    IN  IF k <= 0 THEN q
        ELSE LET unit == Pow2(k)
                 r == q[4] % unit
                 down == [q EXCEPT ![4] = @ - r]
                 up == IF down[4] + unit = Limb
                       THEN IncU64At([down EXCEPT ![4] = 0], 3)
                       ELSE [down EXCEPT ![4] = @ + unit]
                 odd == (q[4] \div unit) % 2 = 1
             IN  IF 2 * r > unit \/ (2 * r = unit /\ odd) THEN up ELSE down

(***************************************************************************)
(* github.com/sec51/convert/bigendian                                      *)
(***************************************************************************)
ToUint64(n) ==
    << ByteOfU64(n, 56), ByteOfU64(n, 48), ByteOfU64(n, 40), ByteOfU64(n, 32),
       ByteOfU64(n, 24), ByteOfU64(n, 16), ByteOfU64(n, 8), ByteOfU64(n, 0) >>

FromUint64(data) ==
    << data[1] * 256 + data[2], data[3] * 256 + data[4],
       data[5] * 256 + data[6], data[7] * 256 + data[8] >>

\* n is the int as a pair <<hi, lo>>; >> on a negative int is arithmetic
ToInt(n) ==
    << (n[1] \div 256) % 256, n[1] % 256, (n[2] \div 256) % 256, n[2] % 256 >>

\* int(data[0]) << 24 keeps its sign bit clear in a 64-bit int and wraps to a
\* negative number in a 32-bit int
FromInt(data, bits) ==
    LET hi == data[1] * 256 + data[2]
        lo == data[3] * 256 + data[4]
    IN  IF bits = 32 /\ hi >= 32768 THEN <<hi - Limb, lo>> ELSE <<hi, lo>>

(***************************************************************************)
(* github.com/sec51/convert/smallendian                                    *)
(***************************************************************************)
LEToUint64(n) ==
    << ByteOfU64(n, 0), ByteOfU64(n, 8), ByteOfU64(n, 16), ByteOfU64(n, 24),
       ByteOfU64(n, 32), ByteOfU64(n, 40), ByteOfU64(n, 48), ByteOfU64(n, 56) >>

LEFromUint64(data) ==
    << data[8] * 256 + data[7], data[6] * 256 + data[5],
       data[4] * 256 + data[3], data[2] * 256 + data[1] >>

LEToInt(n) ==
    << n[2] % 256, (n[2] \div 256) % 256, n[1] % 256, (n[1] \div 256) % 256 >>

LEFromInt(data, bits) ==
    LET hi == data[4] * 256 + data[3]
        lo == data[2] * 256 + data[1]
    IN  IF bits = 32 /\ hi >= 32768 THEN <<hi - Limb, lo>> ELSE <<hi, lo>>

(***************************************************************************)
(* time.Time.  A time is a number of ticks since the epoch; the zero       *)
(* time.Time (1 January of year 1) is ZeroTime, far before every clock     *)
(* reading, and its Unix() is -62135596800.                                *)
(***************************************************************************)
ZeroTime == -1

\* uint64(-62135596800) = 0xFFFFFFF1886E0900
ZeroTimeUnix == <<65535, 65521, 34926, 2304>>

\* uint64(t.Unix()): whole seconds, the sub-second part dropped
UnixU64(t) == IF t = ZeroTime THEN ZeroTimeUnix ELSE U64(t \div TicksPerSecond)

\* a faulty variant: the seconds stored are read as nanoseconds
\* (time.Unix(0, int64(ts))), which is within a tick of 1970
TimeOfUnixNanos(ts) == 0

\* time.Unix(int64(ts), 0)
TimeOfUnix(ts) ==
    IF ts[1] = 0 /\ ts[2] = 0 /\ ts[3] < 4096
    THEN NatOf(ts) * TicksPerSecond
    ELSE ZeroTime

\* t.Unix() of a clock reading
UnixSeconds(t) == t \div TicksPerSecond

backOffTicks == backOffMinutes * 60 * TicksPerSecond

\* a faulty variant: the back-off counted in hours (time.Hour for time.Minute)
validBackOffTimeHours(lastVerification, t) ==
    IF lastVerification = ZeroTime
    THEN TRUE
    ELSE t > lastVerification + backOffMinutes * 3600 * TicksPerSecond

\* validBackOffTime: time.Now().After(lastVerification + backOffMinutes)
validBackOffTime(lastVerification, t) ==
    IF lastVerification = ZeroTime THEN TRUE ELSE t > lastVerification + backOffTicks

(***************************************************************************)
(* The Totp struct.                                                        *)
(***************************************************************************)
NoHash == "none"

\* new(Totp), Totp{}: every field at its zero value
ZeroTotp ==
    [ key |-> <<>>, counter |-> <<0, 0, 0, 0, 0, 0, 0, 0>>, digits |-> 0,
      issuer |-> <<>>, account |-> <<>>, stepSize |-> 0, clientOffset |-> GoInt(0),
      totalVerificationFailures |-> 0, lastVerificationTime |-> ZeroTime,
      hashFunction |-> NoHash ]

totpHasBeenInitialized(isNil, o) ==
    IF isNil \/ Len(o.key) = 0 THEN errInitializationFailed ELSE ErrNone

makeTOTP(key, account, issuer, hash, digits) ==
    [ ZeroTotp EXCEPT !.key = key, !.account = account, !.issuer = issuer,
                      !.digits = digits, !.stepSize = defaultStepSize,
                      !.clientOffset = GoInt(0), !.hashFunction = hash ]

\* rand.Read(key): the key bytes, written here as a function of the draw
RandomBytes(seed, n) == [i \in 1..n |-> (seed * i) % 256]

NewTOTP(account, issuer, hash, digits, seed) ==
    makeTOTP(RandomBytes(seed, HashSize(hash)), account, issuer, hash,
             IF digits < 6 \/ digits > 8 THEN 8 ELSE digits)

\* a faulty variant: the offset found is not stored
synchronizeCounterSkipped(o, offset) == o

synchronizeCounter(o, offset) == [o EXCEPT !.clientOffset = GoInt(offset)]

getIntCounter(o) == FromUint64(o.counter)

(***************************************************************************)
(* Token derivation.                                                       *)
(***************************************************************************)
\* convert.Round of a float64 n >= 0 with an integral value (the program
\* passes times since 1970): uint64(math.Floor(n + 0.5)).  The sum n + 0.5 is
\* exact below 2^52; from 2^52 to 2^53 it lies halfway between two float64
\* and is rounded to the even one; from 2^53 on it is rounded back to n
Round(n) ==
    IF n[1] < Pow2(SignificandBits - 1 - 48) THEN n
    ELSE IF n[1] < Pow2(SignificandBits - 48) /\ n[4] % 2 = 1 THEN IncU64At(n, 4)
    ELSE n

\* a faulty variant: the quotient is rounded to the nearest integer
incrementNearest(ts, stepSize) ==
    IF 2 * ModAt(ts, stepSize, 1, 0) >= stepSize
    THEN IncU64At(DivInt64(ts, stepSize), 4)
    ELSE DivInt64(ts, stepSize)

\* T := float64(ts / int64(stepSize)); convert.Round(T).  ts is an int64 >= 0
\* in limbs
increment(ts, stepSize) == Round(Float64(DivInt64(ts, stepSize)))

\* a faulty variant: the step is shifted by the offset stored for the client
incrementCounterSynced(o, index, t) ==
    [o EXCEPT !.counter =
        ToUint64(increment(U64(UnixSeconds(t + (index + IntOf(o.clientOffset))
                                                 * o.stepSize * TicksPerSecond)),
                           o.stepSize))]

\* the clock reading t shifted by index steps, as the counter of that step
incrementCounter(o, index, t) ==
    [o EXCEPT !.counter =
        ToUint64(increment(U64(UnixSeconds(t + index * o.stepSize * TicksPerSecond)),
                           o.stepSize))]

RECURSIVE Pow10(_)
Pow10(d) == IF d = 0 THEN 1 ELSE 10 * Pow10(d - 1)

RECURSIVE DecimalDigits(_)
DecimalDigits(n) ==
    IF n < 10 THEN <<48 + n>> ELSE Append(DecimalDigits(n \div 10), 48 + (n % 10))

RECURSIVE ZeroPad(_, _)
ZeroPad(s, width) == IF Len(s) >= width THEN s ELSE ZeroPad(<<48>> \o s, width)

\* truncateHash of the HMAC of counter under the Totp's key and hash function
truncateHash(table, counter) ==
    table[NatOf(FromUint64(counter)) % Cardinality(DOMAIN table)]

\* fmt.Sprintf("%0<digits>d", result % 10^digits)
calculateToken(table, counter, digits) ==
    ZeroPad(DecimalDigits(truncateHash(table, counter) % Pow10(digits)), digits)

\* sets the counter to the step at index and derives its token
calculateTOTP(table, o, index, t) ==
    LET o1 == incrementCounter(o, index, t)
    IN  [otp |-> o1, token |-> calculateToken(table, o1.counter, o1.digits)]

\* hex(sha256(s)): equal digests exactly for equal strings
Sha256Hex(s) == <<"sha256", s>>

(***************************************************************************)
(* Totp.Validate, at clock reading t.                                      *)
(***************************************************************************)
\* a faulty variant: the lock-down starts one failure late (> for >=)
lockedDownAboveLimit(o, t) ==
    /\ o.totalVerificationFailures > maxFailures
    /\ ~validBackOffTime(o.lastVerificationTime, t)

\* too many failures, and the back-off time has not passed
lockedDown(o, t) ==
    /\ o.totalVerificationFailures >= maxFailures
    /\ ~validBackOffTime(o.lastVerificationTime, t)

\* a faulty variant: the count is never set back to zero
resetFailuresSkipped(o) == o

\* a faulty variant: the count is set back to zero on every call that is not locked
resetFailuresAlways(o) == [o EXCEPT !.totalVerificationFailures = 0]

\* past the lock-down check: the count starts again from zero if it had hit the limit
resetFailures(o) ==
    IF o.totalVerificationFailures >= maxFailures
    THEN [o EXCEPT !.totalVerificationFailures = 0]
    ELSE o

\* a faulty variant: the time of the failure is not recorded
recordFailureUntimed(o, t) == [o EXCEPT !.totalVerificationFailures = @ + 1]

\* no candidate matched
recordFailure(o, t) ==
    [o EXCEPT !.totalVerificationFailures = @ + 1, !.lastVerificationTime = t]

\* the three candidates are derived in the order -1, 0, +1, then compared in the
\* order 0, -1, +1
compareTokens(table, o, userCode, t) ==
    LET userToken == Sha256Hex(userCode)
        c0 == calculateTOTP(table, o, -1, t)
        c1 == calculateTOTP(table, c0.otp, 0, t)
        c2 == calculateTOTP(table, c1.otp, 1, t)
    IN  IF Sha256Hex(c1.token) = userToken
        THEN [otp |-> c2.otp, err |-> ErrNone]
        ELSE IF Sha256Hex(c0.token) = userToken
        THEN [otp |-> synchronizeCounter(c2.otp, -1), err |-> ErrNone]
        ELSE IF Sha256Hex(c2.token) = userToken
        THEN [otp |-> synchronizeCounter(c2.otp, 1), err |-> ErrNone]
        ELSE [otp |-> recordFailure(c2.otp, t), err |-> errTokenMismatch]

Validate(table, isNil, o, userCode, t) ==
    IF totpHasBeenInitialized(isNil, o) # ErrNone
    THEN [otp |-> o, err |-> errInitializationFailed]
    ELSE IF userCode = <<>>
    THEN [otp |-> o, err |-> errEmptyToken]
    ELSE IF lockedDown(o, t)
    THEN [otp |-> o, err |-> errLockDown]
    ELSE compareTokens(table, resetFailures(o), userCode, t)

\* a faulty variant: the token is derived on a copy, the Totp keeps its counter
OTPOnCopy(table, isNil, o, t) ==
    IF totpHasBeenInitialized(isNil, o) # ErrNone
    THEN [otp |-> o, token |-> <<>>, err |-> errInitializationFailed]
    ELSE [otp |-> o, token |-> calculateTOTP(table, o, 0, t).token, err |-> ErrNone]

(***************************************************************************)
(* Totp.OTP, at clock reading t.                                           *)
(***************************************************************************)
OTP(table, isNil, o, t) ==
    IF totpHasBeenInitialized(isNil, o) # ErrNone
    THEN [otp |-> o, token |-> <<>>, err |-> errInitializationFailed]
    ELSE LET c == calculateTOTP(table, o, 0, t)
         IN  [otp |-> c.otp, token |-> c.token, err |-> ErrNone]

(***************************************************************************)
(* Totp.URL.  The URL is kept as the list of its parts.                    *)
(***************************************************************************)
AlgorithmName(h) == CASE h = SHA256 -> "SHA256" [] h = SHA512 -> "SHA512" [] OTHER -> "SHA1"

\* a faulty variant: the URL is built without the initialization check
URLUnchecked(isNil, o) ==
    [url |-> << "otpauth", "totp", o.issuer, o.account, o.key, getIntCounter(o),
                o.issuer, o.digits, o.stepSize, AlgorithmName(o.hashFunction) >>,
     err |-> ErrNone]

URL(isNil, o) ==
    IF totpHasBeenInitialized(isNil, o) # ErrNone
    THEN [url |-> <<>>, err |-> errInitializationFailed]
    ELSE [url |-> << "otpauth", "totp", o.issuer, o.account, o.key, getIntCounter(o),
                     o.issuer, o.digits, o.stepSize, AlgorithmName(o.hashFunction) >>,
          err |-> ErrNone]

(***************************************************************************)
(* The crypto engine: key files, nonce derivation, secretbox.              *)
(***************************************************************************)
KeySlots == {"salt", "secret", "public", "private", "nonce"}

\* a key file that does not exist, and the all-zero key
NoKey == <<>>

MessageDecryptionError == "Could not verify the message. Message has been tempered with!"
MessageParsingError == "Could not parse the Message from bytes"
errClearTextEmpty == "Clear text cannot be empty"
ErrExist == "file already exists"

\* a run-time panic, written as an error
errPanic == "panic"

\* what os.OpenFile, File.Write and os.Remove return when they fail
ErrIO == "input/output error"

\* strings.ToLower, then every white space replaced by '_', of a string that
\* holds no escape sequence and no white space at either end
sanitizeIdentifier(id) ==
    [i \in 1..Len(id) |->
        IF id[i] >= 65 /\ id[i] <= 90 THEN id[i] + 32
        ELSE IF id[i] \in {9, 10, 11, 12, 13, 32} THEN 95
        ELSE id[i]]

\* the key the CSPRNG yields for a slot, as a function of the draw
generateSecretKey(draw, slot) == <<draw, slot>>

\* hex.Encode of a key, and hex.Decode of what hex.Encode made
HexEncode(key) == <<"hex", key>>
HexDecode(data) == data[2]

\* a file that was created and then not written
EmptyFile == <<"empty">>

\* what may go wrong with the files during one call: creating or writing the
\* file of one slot, and removing a file
WriteFaults == {"none", "open", "write"}
NoFaults == [slot |-> "none", write |-> "none", delete |-> FALSE]

\* a faulty variant: a file that exists is written again
writeFileOverwriting(fs, slot, data, fault) ==
    [files |-> [fs EXCEPT ![slot] = data], err |-> ErrNone]

\* writeFile: os.ErrExist if the file exists; else the file is created and
\* written, and either step may fail
writeFile(fs, slot, data, fault) ==
    IF fs[slot] # NoKey THEN [files |-> fs, err |-> ErrExist]
    ELSE IF fault = "open" THEN [files |-> fs, err |-> ErrIO]
    ELSE IF fault = "write" THEN [files |-> [fs EXCEPT ![slot] = EmptyFile], err |-> ErrIO]
    ELSE [files |-> [fs EXCEPT ![slot] = data], err |-> ErrNone]

\* the fault that hits the file of a slot
FaultOn(faults, slot) == IF faults.slot = slot THEN faults.write ELSE "none"

writeKey(fs, slot, key, faults) == writeFile(fs, slot, HexEncode(key), FaultOn(faults, slot))

\* readKey: dst[:keySize] of an empty file is out of range
readKey(fs, slot) ==
    IF fs[slot] = EmptyFile THEN [key |-> NoKey, err |-> errPanic]
    ELSE [key |-> HexDecode(fs[slot]), err |-> ErrNone]

\* deleteFile: os.Remove if the file exists
deleteFile(fs, slot, faults) ==
    IF fs[slot] = NoKey THEN [files |-> fs, err |-> ErrNone]
    ELSE IF faults.delete THEN [files |-> fs, err |-> ErrIO]
    ELSE [files |-> [fs EXCEPT ![slot] = NoKey], err |-> ErrNone]

\* loadSalt, loadSecretKey, loadNonceKey: read the file if it exists, else
\* generate a key and write it
loadKey(fs, slot, draw, faults) ==
    IF fs[slot] # NoKey
    THEN LET r == readKey(fs, slot) IN [key |-> r.key, files |-> fs, err |-> r.err]
    ELSE LET k == generateSecretKey(draw, slot)
             w == writeKey(fs, slot, k, faults)
         IN  [key |-> k, files |-> w.files, err |-> w.err]

\* loadKeyPairs: the private key is read if its file exists; the public key is
\* read if its file exists, and the pair is returned then; else a pair is made
\* and written, the public key first, and the public key file is deleted again
\* if the private key cannot be written
loadKeyPairs(fs, draw, faults) ==
    LET readPrivate == IF fs["private"] # NoKey THEN readKey(fs, "private")
                       ELSE [key |-> NoKey, err |-> ErrNone]
        readPublic == readKey(fs, "public")
        public == generateSecretKey(draw, "public")
        private == generateSecretKey(draw, "private")
        wPublic == writeKey(fs, "public", public, faults)
        wPrivate == writeKey(wPublic.files, "private", private, faults)
        d == deleteFile(wPrivate.files, "public", faults)
    IN  IF readPrivate.err # ErrNone
        THEN [public |-> NoKey, private |-> NoKey, files |-> fs, err |-> readPrivate.err]
        ELSE IF fs["public"] # NoKey
        THEN [public |-> readPublic.key, private |-> readPrivate.key, files |-> fs,
              err |-> readPublic.err]
        ELSE IF wPublic.err # ErrNone
        THEN [public |-> public, private |-> private, files |-> wPublic.files,
              err |-> wPublic.err]
        ELSE IF wPrivate.err # ErrNone
        THEN [public |-> public, private |-> private, files |-> d.files,
              err |-> IF d.err # ErrNone THEN d.err ELSE wPrivate.err]
        ELSE [public |-> public, private |-> private, files |-> wPrivate.files,
              err |-> ErrNone]

\* no bytes at all
NoBlob ==
    [length |-> <<>>, nonce |-> <<>>, data |-> [key |-> NoKey, nonce |-> <<>>, plain |-> <<>>]]

NoEngine ==
    [ context |-> <<>>, publicKey |-> NoKey, privateKey |-> NoKey, secretKey |-> NoKey,
      salt |-> NoKey, nonceKey |-> NoKey, counter |-> U64(0) ]

\* the one element of a set of one element
Once(S) == CHOOSE x \in S : TRUE

\* InitCryptoEngine on key files whose writes and deletes may fail; each key is
\* loaded once, from the files the load before it has left
InitCryptoEngineOn(communicationIdentifier, fs, draw, faults) ==
    LET context == sanitizeIdentifier(communicationIdentifier)
        Loaded(s, p, k, n) ==
            IF s.err # ErrNone THEN [engine |-> NoEngine, files |-> s.files, err |-> s.err]
            ELSE IF p.err # ErrNone THEN [engine |-> NoEngine, files |-> p.files, err |-> p.err]
            ELSE IF k.err # ErrNone THEN [engine |-> NoEngine, files |-> k.files, err |-> k.err]
            ELSE IF n.err # ErrNone THEN [engine |-> NoEngine, files |-> n.files, err |-> n.err]
            ELSE [engine |-> [ context |-> context, publicKey |-> p.public,
                               privateKey |-> p.private, secretKey |-> k.key,
                               salt |-> s.key, nonceKey |-> n.key, counter |-> U64(0) ],
                  files |-> n.files, err |-> ErrNone]
    IN  Once({ Once({ Once({ Once({ Loaded(s, p, k, n) :
                n \in {loadKey(k.files, "nonce", draw, faults)} }) :
                k \in {loadKey(p.files, "secret", draw, faults)} }) :
                p \in {loadKeyPairs(s.files, draw, faults)} }) :
                s \in {loadKey(fs, "salt", draw, faults)} })

\* InitCryptoEngine on key files that work
InitCryptoEngine(communicationIdentifier, fs, draw) ==
    InitCryptoEngineOn(communicationIdentifier, fs, draw, NoFaults)

MaxUint64 == <<Limb - 1, Limb - 1, Limb - 1, Limb - 1>>

\* strconv.FormatUint(n, 10); a value past TLC's integers keeps its limbs
FormatUint(u) ==
    IF u[1] = 0 /\ u[2] = 0 /\ u[3] < 4096 THEN DecimalDigits(NatOf(u)) ELSE <<u>>

fetchAndIncrement(engine) ==
    LET c == IF engine.counter = MaxUint64 THEN U64(0) ELSE engine.counter
    IN  [engine |-> [engine EXCEPT !.counter = IncU64At(c, 4)],
         counterString |-> FormatUint(c)]

\* HKDF-SHA256 of the nonce key, the salt and context + counter: 24 bytes that
\* are a function of these three
deriveNonce(masterKey, salt, context, counterValue) ==
    <<"hkdf", masterKey, salt, context \o counterValue>>

\* the Version and the Type of a message are Go ints
NewMessage(clearText, type) ==
    IF clearText = <<>>
    THEN [msg |-> [Version |-> GoInt(0), Type |-> GoInt(0), Text |-> <<>>],
          err |-> errClearTextEmpty]
    ELSE [msg |-> [Version |-> GoInt(tcpVersion), Type |-> GoInt(type), Text |-> clearText],
          err |-> ErrNone]

messageToBytes(m) == LEToInt(m.Version) \o LEToInt(m.Type) \o m.Text

\* secretbox.Seal: the plain text under a key and a nonce, 16 bytes longer
Seal(plain, nonce, key) == [key |-> key, nonce |-> nonce, plain |-> plain]

SealedLen(data) == Len(data.plain) + secretboxOverhead

NewEncryptedMessage(engine, msg) ==
    LET f == fetchAndIncrement(engine)
        nonce == deriveNonce(engine.nonceKey, engine.salt, engine.context, f.counterString)
        data == Seal(messageToBytes(msg), nonce, engine.secretKey)
    IN  [ engine |-> f.engine,
          m |-> [length |-> U64(SealedLen(data) + nonceSize + 8), nonce |-> nonce,
                 data |-> data] ]

\* EncryptedMessage.ToBytes: the length in 8 bytes, the nonce, the sealed data
EncryptedMessageToBytes(m) ==
    [length |-> LEToUint64(m.length), nonce |-> m.nonce, data |-> m.data]

(***************************************************************************)
(* Totp.ToBytes                                                            *)
(***************************************************************************)
HashType(h) == CASE h = SHA256 -> 1 [] h = SHA512 -> 2 [] OTHER -> 0

\* the buffer ToBytes fills before it encrypts
totpBuffer(o) ==
    LET keySize == Len(o.key)
        issuerSize == Len(o.issuer)
        accountSize == Len(o.account)
        totalSize == 4 + 4 + keySize + 8 + 4 + 4 + issuerSize + 4 + accountSize
                       + 4 + 4 + 4 + 8 + 4
    IN  ToInt(GoInt(totalSize))
        \o ToInt(GoInt(keySize)) \o o.key
        \o ToUint64(getIntCounter(o))
        \o ToInt(GoInt(o.digits))
        \o ToInt(GoInt(issuerSize)) \o o.issuer
        \o ToInt(GoInt(accountSize)) \o o.account
        \o ToInt(GoInt(o.stepSize))
        \o ToInt(o.clientOffset)
        \o ToInt(GoInt(o.totalVerificationFailures))
        \o ToUint64(UnixU64(o.lastVerificationTime))
        \o ToInt(GoInt(HashType(o.hashFunction)))

ToBytes(isNil, o, fs, draw) ==
    IF totpHasBeenInitialized(isNil, o) # ErrNone
    THEN [bytes |-> NoBlob, files |-> fs, err |-> errInitializationFailed]
    ELSE LET e == InitCryptoEngine(o.issuer, fs, draw)
             message == NewMessage(totpBuffer(o), messageType)
         IN  IF e.err # ErrNone THEN [bytes |-> NoBlob, files |-> e.files, err |-> e.err]
             ELSE IF message.err # ErrNone
             THEN [bytes |-> NoBlob, files |-> e.files, err |-> message.err]
             ELSE [bytes |-> EncryptedMessageToBytes(
                                NewEncryptedMessage(e.engine, message.msg).m),
                   files |-> e.files, err |-> ErrNone]

(***************************************************************************)
(* CryptoEngine.Decrypt                                                    *)
(***************************************************************************)
NilMessage == [isNil |-> TRUE, Version |-> GoInt(0), Type |-> GoInt(0), Text |-> <<>>]

\* the bytes of the nonce a record holds: all 24, or the first n of a record cut
\* short, written <<"cut", n, nonce>>
NonceLen(nonce) ==
    IF nonce = <<>> THEN 0 ELSE IF nonce[1] = "cut" THEN nonce[2] ELSE nonceSize

\* the bytes of sealed data a record holds
DataLen(data) == IF data = NoBlob.data THEN 0 ELSE SealedLen(data)

\* len(data) of serialized bytes
BytesLen(b) == Len(b.length) + NonceLen(b.nonce) + DataLen(b.data)

encryptedMessageFromBytes(b) ==
    IF BytesLen(b) < 8 + nonceSize + 1
    THEN [m |-> NoBlob, err |-> MessageParsingError]
    ELSE [m |-> [length |-> LEFromUint64(b.length), nonce |-> b.nonce, data |-> b.data],
          err |-> ErrNone]

\* on a build with ints of this size
messageFromBytes(data, bits) ==
    IF Len(data) < 4 + 4 + 1
    THEN [msg |-> NilMessage, err |-> MessageParsingError]
    ELSE [msg |-> [isNil |-> FALSE,
                   Version |-> LEFromInt(SubSeq(data, 1, 4), bits),
                   Type |-> LEFromInt(SubSeq(data, 5, 8), bits),
                   Text |-> SubSeq(data, 9, Len(data))],
          err |-> ErrNone]

\* a faulty variant: the data is opened without the check of its tag
OpenUnverified(data, nonce, key) == [plain |-> data.plain, valid |-> TRUE]

\* secretbox.Open: the plain text, if the data was sealed under this key and nonce
Open(data, nonce, key) ==
    IF data.key = key /\ data.nonce = nonce
    THEN [plain |-> data.plain, valid |-> TRUE]
    ELSE [plain |-> <<>>, valid |-> FALSE]

\* the error of messageFromBytes is dropped: Decrypt returns its message with nil
Decrypt(engine, encryptedBytes, bits) ==
    LET e == encryptedMessageFromBytes(encryptedBytes)
        d == Open(e.m.data, e.m.nonce, engine.secretKey)
    IN  IF e.err # ErrNone THEN [msg |-> NilMessage, err |-> e.err]
        ELSE IF ~d.valid THEN [msg |-> NilMessage, err |-> MessageDecryptionError]
        ELSE [msg |-> messageFromBytes(d.plain, bits).msg, err |-> ErrNone]

(***************************************************************************)
(* TOTPFromBytes                                                           *)
(***************************************************************************)

\* buffer[start:start+n], with start counted from 0
Slice(buffer, start, n) == SubSeq(buffer, start + 1, start + n)

\* a faulty variant: the cases of SHA256 and SHA512 exchanged
HashOfTypeSwapped(hashType) ==
    IF hashType = GoInt(1) THEN SHA512 ELSE IF hashType = GoInt(2) THEN SHA256 ELSE SHA1

\* the hash function of a hash_type field
HashOfType(hashType) ==
    IF hashType = GoInt(1) THEN SHA256 ELSE IF hashType = GoInt(2) THEN SHA512 ELSE SHA1

\* the fields read back from the decrypted text, on a build with ints of this size
parseTotp(text, bits) ==
    LET totalSize == IntOf(FromInt(Slice(text, 0, 4), bits))
        buffer == Slice(text, 4, totalSize - 4)
        keySize == IntOf(FromInt(Slice(buffer, 0, 4), bits))
        keyAt == 4
        counterAt == keyAt + keySize
        digitsAt == counterAt + 8
        issuerSizeAt == digitsAt + 4
        issuerSize == IntOf(FromInt(Slice(buffer, issuerSizeAt, 4), bits))
        issuerAt == issuerSizeAt + 4
        accountSizeAt == issuerAt + issuerSize
        accountSize == IntOf(FromInt(Slice(buffer, accountSizeAt, 4), bits))
        accountAt == accountSizeAt + 4
        stepsAt == accountAt + accountSize
        offsetAt == stepsAt + 4
        failuresAt == offsetAt + 4
        timeAt == failuresAt + 4
        hashAt == timeAt + 8
    IN  [ key |-> Slice(buffer, keyAt, keySize),
          counter |-> Slice(buffer, counterAt, 8),
          digits |-> IntOf(FromInt(Slice(buffer, digitsAt, 4), bits)),
          issuer |-> Slice(buffer, issuerAt, issuerSize),
          account |-> Slice(buffer, accountAt, accountSize),
          stepSize |-> IntOf(FromInt(Slice(buffer, stepsAt, 4), bits)),
          clientOffset |-> FromInt(Slice(buffer, offsetAt, 4), bits),
          totalVerificationFailures |-> IntOf(FromInt(Slice(buffer, failuresAt, 4), bits)),
          lastVerificationTime |-> TimeOfUnix(FromUint64(Slice(buffer, timeAt, 8))),
          hashFunction |-> HashOfType(FromInt(Slice(buffer, hashAt, 4), bits)) ]

\* a nil message or a text shorter than the buffer ToBytes writes makes the
\* slice expressions panic
TOTPFromBytes(encryptedMessage, issuer, fs, draw, bits) ==
    LET e == InitCryptoEngine(issuer, fs, draw)
        data == Decrypt(e.engine, encryptedMessage, bits)
    IN  IF e.err # ErrNone THEN [otp |-> ZeroTotp, isNil |-> TRUE, files |-> e.files, err |-> e.err]
        ELSE IF data.err # ErrNone
        THEN [otp |-> ZeroTotp, isNil |-> TRUE, files |-> e.files, err |-> data.err]
        ELSE IF data.msg.isNil \/ Len(data.msg.Text) < 4 + 4 + 8 + 4 + 4 + 4 + 4 + 4 + 4 + 8 + 4
        THEN [otp |-> ZeroTotp, isNil |-> TRUE, files |-> e.files, err |-> errPanic]
        ELSE [otp |-> parseTotp(data.msg.Text, bits), isNil |-> FALSE, files |-> e.files,
              err |-> ErrNone]

(***************************************************************************)
(* The calls a caller can make, and the clock.                             *)
(***************************************************************************)
NoFiles == [slot \in KeySlots |-> NoKey]

\* the last call: its name, the code submitted, the error returned, the value
\* returned, the failure count before it, and whether it was made on a Totp just
\* restored from bytes
NoCall == [op |-> "none", code |-> <<>>, err |-> ErrNone, result |-> <<>>,
           failuresBefore |-> 0, restored |-> FALSE]

stepTicks == defaultStepSize * TicksPerSecond

\* the clock starts two steps after the epoch, on a second or between two
StartTimes == {2 * stepTicks, 2 * stepTicks + 1}

\* the clock advances by one step, or by the back-off time give or take a tick
ClockAdvances == {stepTicks, backOffTicks - 1, backOffTicks, backOffTicks + 1}

EndOfTime == 2 * stepTicks + HorizonSteps * stepTicks

\* the strings a caller submits: none, and the codes of the right width whose
\* value the HMAC table can produce, and one it cannot
UserCodes(o) ==
    {<<>>} \cup {ZeroPad(DecimalDigits(v), o.digits) : v \in 0..(MaxHmacValue + 1)}

TickUntil(end) ==
    /\ \E d \in ClockAdvances : now + d <= end /\ now' = now + d
    /\ last' = NoCall
    /\ UNCHANGED <<intSize, hmacTable, otpNil, otp, files, stored, storedFrom>>
    /\ UNCHANGED <<engineVars, counterVars, recoveryVars, pureVars, cacheVars, keyCall>>

\* The caller holds the Totp or the bytes of its present state: bytes kept from
\* before a Validate or an OTP call are out of date and are dropped.
DoValidate ==
    \E userCode \in UserCodes(otp) :
        LET r == Validate(hmacTable, otpNil, otp, userCode, now)
        IN  /\ otp' = r.otp
            /\ last' = [op |-> "Validate", code |-> userCode, err |-> r.err,
                        result |-> <<>>,
                        failuresBefore |-> otp.totalVerificationFailures,
                        restored |-> (last.op = "TOTPFromBytes" /\ last.err = ErrNone)]
            /\ stored' = NoBlob
            /\ storedFrom' = ZeroTotp
            /\ UNCHANGED <<now, intSize, hmacTable, otpNil, files>>
            /\ UNCHANGED <<engineVars, counterVars, recoveryVars, pureVars, cacheVars, keyCall>>

DoOTP ==
    LET r == OTP(hmacTable, otpNil, otp, now)
    IN  /\ otp' = r.otp
        /\ last' = [op |-> "OTP", code |-> <<>>, err |-> r.err,
                    result |-> r.token,
                    failuresBefore |-> otp.totalVerificationFailures,
                    restored |-> FALSE]
        /\ stored' = NoBlob
        /\ storedFrom' = ZeroTotp
        /\ UNCHANGED <<now, intSize, hmacTable, otpNil, files>>
        /\ UNCHANGED <<engineVars, counterVars, recoveryVars, pureVars, cacheVars, keyCall>>

DoURL ==
    LET r == URL(otpNil, otp)
    IN  /\ last' = [op |-> "URL", code |-> <<>>, err |-> r.err, result |-> r.url,
                    failuresBefore |-> otp.totalVerificationFailures,
                    restored |-> FALSE]
        /\ UNCHANGED <<now, intSize, hmacTable, otpNil, otp, files, stored, storedFrom>>
        /\ UNCHANGED <<engineVars, counterVars, recoveryVars, pureVars, cacheVars, keyCall>>

\* the caller keeps the bytes
DoToBytes ==
    \E draw \in 1..MaxKeyValue :
        LET r == ToBytes(otpNil, otp, files, draw)
        IN  /\ files' = r.files
            /\ stored' = IF r.err = ErrNone THEN r.bytes ELSE stored
            /\ storedFrom' = IF r.err = ErrNone THEN otp ELSE storedFrom
            /\ last' = [op |-> "ToBytes", code |-> <<>>, err |-> r.err,
                        result |-> <<r.bytes>>,
                        failuresBefore |-> otp.totalVerificationFailures,
                        restored |-> (last.op = "TOTPFromBytes" /\ last.err = ErrNone)]
            /\ UNCHANGED <<now, intSize, hmacTable, otpNil, otp>>
            /\ UNCHANGED <<engineVars, counterVars, recoveryVars, pureVars, cacheVars, keyCall>>

\* the caller restores the Totp from the bytes kept, under the issuer they were
\* made for, and goes on with the restored one
DoFromBytes ==
    /\ stored # NoBlob
    /\ \E draw \in 1..MaxKeyValue :
        LET r == TOTPFromBytes(stored, storedFrom.issuer, files, draw, intSize)
        IN  /\ files' = r.files
            /\ otp' = IF r.err = ErrNone THEN r.otp ELSE otp
            /\ otpNil' = IF r.err = ErrNone THEN FALSE ELSE otpNil
            /\ last' = [op |-> "TOTPFromBytes", code |-> <<>>, err |-> r.err,
                        result |-> <<>>,
                        failuresBefore |-> otp.totalVerificationFailures,
                        restored |-> FALSE]
            /\ UNCHANGED <<now, intSize, hmacTable, stored, storedFrom>>
            /\ UNCHANGED <<engineVars, counterVars, recoveryVars, pureVars, cacheVars, keyCall>>

\* the HMAC tables, one for each pattern of equal and different values: token
\* values are only ever compared, so a table stands for all its renamings
HmacTables ==
    { f \in [0..(OraclePeriod - 1) -> 0..MaxHmacValue] :
        /\ f[0] = 0
        /\ \A i \in 1..(OraclePeriod - 1) : \E j \in 0..(i - 1) : f[i] <= f[j] + 1 }

\* what the caller holds at the start: a nil pointer, a Totp{} made by hand, or
\* the result of NewTOTP
InitTotp(asked, seeds) ==
    \/ otpNil = TRUE /\ otp = ZeroTotp
    \/ otpNil = FALSE /\ otp = ZeroTotp
    \/ /\ otpNil = FALSE
       /\ \E a \in asked, seed \in seeds :
              otp = NewTOTP(<<97>>, <<83, 49>>, a[1], a[2], seed)

InitRest(sizes, starts, tables) ==
    /\ now \in starts
    /\ intSize \in sizes
    /\ hmacTable \in tables
    /\ files = NoFiles
    /\ stored = NoBlob
    /\ storedFrom = ZeroTotp
    /\ last = NoCall

(***************************************************************************)
(* What is at rest while another part of the program runs.                 *)
(***************************************************************************)
EngineIds == 1..MaxEngines

\* no Decrypt or TOTPFromBytes call made yet
NoReceipt ==
    [op |-> "none", by |-> 0, from |-> 0, damage |-> "none", at |-> 0,
     msg |-> NilMessage, otp |-> ZeroTotp, err |-> ErrNone]

\* no thread: the zero value of the mutex
NoThread == 0

\* no UseRecoveryCode call made yet
NoUse ==
    [input |-> <<>>, before |-> <<>>, after |-> <<>>,
     ret |-> [isNil |-> TRUE, list |-> <<>>], ok |-> FALSE, calls |-> 0]

\* no increment call made yet
NoIncrement == [called |-> FALSE, ts |-> U64(0), stepSize |-> 1, T |-> U64(0)]

\* no Totp is in use: the caller holds a nil pointer and no bytes
IdleTotp(sizes, fs) ==
    /\ now = 0
    /\ intSize \in sizes
    /\ hmacTable = [i \in 0..(OraclePeriod - 1) |-> 0]
    /\ otpNil = TRUE
    /\ otp = ZeroTotp
    /\ files = fs
    /\ stored = NoBlob
    /\ storedFrom = ZeroTotp
    /\ last = NoCall

IdleEngines ==
    /\ engines = [id \in EngineIds |-> NoEngine]
    /\ outbox = <<>>
    /\ received = NoReceipt

IdleCounter ==
    /\ sharedEngine = NoEngine
    /\ counterMutex = NoThread
    /\ threads = <<>>
    /\ issued = <<>>

IdleRecovery ==
    /\ codes = <<>>
    /\ hashed = <<>>
    /\ recovered = NoUse

IdleSteps == timeStep = NoIncrement

\* no codec call made yet
NoConversion == [op |-> "none", package |-> "", arg |-> <<>>, bytes |-> <<>>, back |-> <<>>]

\* no call on the key files made yet
NoKeyCall ==
    [op |-> "none", id |-> <<>>, draw |-> 0, slot |-> "", faults |-> NoFaults,
     before |-> NoFiles, engine |-> NoEngine, err |-> ErrNone, clean |-> TRUE]

IdleCodec == converted = NoConversion

IdleCache ==
    /\ mutex = NoThread
    /\ preSharedKeysMap = {}

IdleKeys == keyCall = NoKeyCall

IdleOthers == IdleCodec /\ IdleCache /\ IdleKeys

(***************************************************************************)
(* Validation over time: one Totp, validated and read while the clock runs *)
(* through more than a back-off time.                                      *)
(***************************************************************************)
Init ==
    /\ InitTotp({<<SHA1, 7>>}, {1})
    /\ InitRest({64}, {2 * stepTicks + 1}, HmacTables)
    /\ IdleEngines /\ IdleCounter /\ IdleRecovery /\ IdleSteps /\ IdleOthers

Tick == TickUntil(EndOfTime)

Next == Tick \/ DoValidate \/ DoOTP

Spec == Init /\ [][Next]_vars

(***************************************************************************)
(* Persistence: a Totp of any hash function and digit count, on a build of *)
(* either int size, validated, serialised and restored at one reading of   *)
(* the clock.                                                              *)
(***************************************************************************)
\* the tables whose values all differ
DistinctTables == {f \in HmacTables : \A i, j \in DOMAIN f : f[i] = f[j] => i = j}

InitSerial ==
    /\ InitTotp({<<SHA1, 5>>, <<SHA256, 6>>, <<SHA512, 7>>, <<SHA1, 9>>}, {1})
    /\ InitRest({32, 64}, {2 * stepTicks + 1}, DistinctTables)
    /\ IdleEngines /\ IdleCounter /\ IdleRecovery /\ IdleSteps /\ IdleOthers

NextSerial == DoValidate \/ DoOTP \/ DoURL \/ DoToBytes \/ DoFromBytes

SpecSerial == InitSerial /\ [][NextSerial]_vars

(***************************************************************************)
(* Properties of Validate: lock-down, back-off, failure count, candidates. *)
(***************************************************************************)
\* the Totp passes totpHasBeenInitialized
Initialized == ~otpNil /\ Len(otp.key) > 0

\* the token of the step index steps from the present clock reading
TokenAt(index) == calculateTOTP(hmacTable, otp, index, now).token

\* the three candidates of a Validate call made now
Candidates == {TokenAt(-1), TokenAt(0), TokenAt(1)}

\* the step is a Validate call with a non-empty code on an initialized Totp
ValidateCall == last'.op = "Validate" /\ last'.code # <<>> /\ Initialized

\* a Validate call made now would get past the lock-down check
NotLocked ==
    \/ otp.totalVerificationFailures < maxFailures
    \/ now > otp.lastVerificationTime + backOffTicks

\* C1: once the failure count has reached 3, a Validate call with a non-empty
\* code made less than 5 minutes after the last failure returns errLockDown,
\* whatever the code, and touches nothing: no token is derived or compared.
C1_LockDown ==
    [][ ( /\ ValidateCall
          /\ otp.totalVerificationFailures >= maxFailures
          /\ now - otp.lastVerificationTime < backOffTicks )
        => ( last'.err = errLockDown /\ otp' = otp ) ]_vars

\* C1 happens: the correct current token was refused with errLockDown, some
\* time after the third failure and within the back-off.
C1_CorrectTokenRefused ==
    /\ Initialized
    /\ last.op = "Validate"
    /\ last.err = errLockDown
    /\ last.code = TokenAt(0)
    /\ otp.totalVerificationFailures = maxFailures
    /\ now > otp.lastVerificationTime
    /\ now - otp.lastVerificationTime < backOffTicks

\* C2, as stated: with the failure count at 3 or more and at least 5 minutes
\* (exactly 5 minutes included) since the last failure, Validate does not
\* return errLockDown, and a correct token succeeds and leaves the count at 0.
C2_AtFiveMinutes ==
    [][ ( /\ ValidateCall
          /\ otp.totalVerificationFailures >= maxFailures
          /\ now - otp.lastVerificationTime >= backOffTicks )
        => ( /\ last'.err # errLockDown
             /\ last'.code \in Candidates
                  => last'.err = ErrNone /\ otp'.totalVerificationFailures = 0 ) ]_vars

\* C2, amended: with the failure count at 3 or more and strictly more than
\* 5 minutes since the last failure, Validate does not return errLockDown: the
\* count starts again from 0, so a correct token succeeds and leaves it at 0
\* and a wrong one leaves it at 1.
C2_AfterFiveMinutes ==
    [][ ( /\ ValidateCall
          /\ otp.totalVerificationFailures >= maxFailures
          /\ now - otp.lastVerificationTime > backOffTicks )
        => ( /\ last'.err # errLockDown
             /\ last'.code \in Candidates
                  => last'.err = ErrNone /\ otp'.totalVerificationFailures = 0
             /\ last'.code \notin Candidates
                  => otp'.totalVerificationFailures = 1 ) ]_vars

\* C2 happens: a correct token was accepted after a lock-down had run out.
C2_AcceptedAfterBackOff ==
    /\ Initialized
    /\ last.op = "Validate"
    /\ last.err = ErrNone
    /\ last.failuresBefore >= maxFailures
    /\ otp.totalVerificationFailures = 0
    /\ now - otp.lastVerificationTime > backOffTicks

\* C3: the failure count stays within 0..3 whatever codes are submitted and
\* however the clock advances.
C3_FailuresBounded ==
    otp.totalVerificationFailures >= 0 /\ otp.totalVerificationFailures <= maxFailures

\* C3 happens: a wrong code was submitted during the lock-down and the count
\* stayed at 3.
C3_WrongCodeWhileLocked ==
    /\ Initialized
    /\ last.op = "Validate"
    /\ last.err = errLockDown
    /\ last.code \notin Candidates
    /\ last.failuresBefore = maxFailures
    /\ otp.totalVerificationFailures = maxFailures

\* C4, as stated: after a Validate call that returns success the failure
\* count is 0.
C4_SuccessClearsCount ==
    (last.op = "Validate" /\ last.err = ErrNone) => otp.totalVerificationFailures = 0

\* C4, amended: a Validate call that returns success leaves the failure count
\* as it was, unless the count had reached 3 and the back-off had run out, in
\* which case it is 0; failures on either side of a success add up.
C4_SuccessKeepsCount ==
    [][ ( last'.op = "Validate" /\ last'.err = ErrNone )
        => otp'.totalVerificationFailures =
              IF otp.totalVerificationFailures >= maxFailures
              THEN 0
              ELSE otp.totalVerificationFailures ]_vars

\* C4 happens: a Validate call succeeded with two failures on the count, and
\* the count is still two.
C4_SuccessWithFailuresKept ==
    /\ Initialized
    /\ last.op = "Validate"
    /\ last.err = ErrNone
    /\ last.failuresBefore = 2
    /\ otp.totalVerificationFailures = 2

\* C5: a Validate call with a non-empty code on an initialized Totp that is
\* not locked returns nil exactly when the code is the token of the step
\* before, the present step or the step after; otherwise it returns
\* errTokenMismatch, adds exactly 1 to the failure count it compares under
\* (the count it found, or 0 when a lock-down has just run out) and sets
\* lastVerificationTime to the present time.
C5_MatchOrMismatch ==
    [][ ( ValidateCall /\ NotLocked )
        => IF last'.code \in Candidates
           THEN last'.err = ErrNone
           ELSE /\ last'.err = errTokenMismatch
                /\ otp'.totalVerificationFailures =
                      ( IF otp.totalVerificationFailures >= maxFailures
                        THEN 0
                        ELSE otp.totalVerificationFailures ) + 1
                /\ otp'.lastVerificationTime = now ]_vars

\* C5 happens: a wrong code was refused with errTokenMismatch, the count went
\* from 1 to 2 and the time of the failure is the present time.
C5_MismatchRecorded ==
    /\ Initialized
    /\ last.op = "Validate"
    /\ last.err = errTokenMismatch
    /\ last.code \notin Candidates
    /\ last.failuresBefore = 1
    /\ otp.totalVerificationFailures = 2
    /\ otp.lastVerificationTime = now

\* the tokens of the three steps all differ
TokensDistinct ==
    TokenAt(-1) # TokenAt(0) /\ TokenAt(0) # TokenAt(1) /\ TokenAt(-1) # TokenAt(1)

C7_Uninitialized ==
    [][ ( /\ ~Initialized
          /\ last'.op \in {"URL", "OTP", "Validate", "ToBytes"} )
        => ( /\ last'.err = errInitializationFailed
             /\ otp' = otp
             /\ otpNil' = otpNil
             /\ files' = files ) ]_vars

\* C7 happens: ToBytes was called on a nil Totp and refused.
C7_NilRefused ==
    /\ otpNil
    /\ last.op = "ToBytes"
    /\ last.err = errInitializationFailed
    /\ files = NoFiles

\* a Totp a caller can hold before any serialisation
ValidTotp(o) ==
    /\ Len(o.key) > 0
    /\ o.clientOffset \in {GoInt(-1), GoInt(0), GoInt(1)}
    /\ o.totalVerificationFailures \in 0..maxFailures
    /\ o.hashFunction \in Hashes

\* equal in every field, the time compared to the second
SameTotp(a, b) ==
    /\ a.key = b.key
    /\ a.digits = b.digits
    /\ getIntCounter(a) = getIntCounter(b)
    /\ a.issuer = b.issuer
    /\ a.account = b.account
    /\ a.stepSize = b.stepSize
    /\ a.clientOffset = b.clientOffset
    /\ a.totalVerificationFailures = b.totalVerificationFailures
    /\ UnixU64(a.lastVerificationTime) = UnixU64(b.lastVerificationTime)
    /\ a.hashFunction = b.hashFunction

\* C8, as stated: TOTPFromBytes of the bytes of a valid Totp, under its
\* issuer, succeeds and yields a Totp equal to it in every field.
C8_RoundTrip ==
    [][ ( last'.op = "TOTPFromBytes" /\ ValidTotp(storedFrom) )
        => ( last'.err = ErrNone /\ SameTotp(otp', storedFrom) ) ]_vars

\* C8 fails here: on a build with 64-bit ints a clientOffset of -1 comes back
\* as 4294967295.
C8_OffsetNotRestored ==
    /\ last.op = "TOTPFromBytes"
    /\ last.err = ErrNone
    /\ intSize = 64
    /\ storedFrom.clientOffset = GoInt(-1)
    /\ otp.clientOffset = <<Limb - 1, Limb - 1>>

\* C9: ToBytes of a Totp just restored from bytes returns exactly those bytes:
\* the same length field, the same nonce and the same ciphertext.
C9_SameBytes ==
    [][ ( /\ last.op = "TOTPFromBytes"
          /\ last.err = ErrNone
          /\ last'.op = "ToBytes" )
        => ( last'.err = ErrNone /\ stored' = stored /\ last'.result = <<stored>> ) ]_vars

\* C9 happens: a Totp with failures on the count and an offset of -1 was
\* serialised, restored and serialised again.
C9_Reserialised ==
    /\ last.op = "ToBytes"
    /\ last.restored
    /\ last.err = ErrNone
    /\ storedFrom.totalVerificationFailures > 0
    /\ storedFrom.lastVerificationTime # ZeroTime
    /\ stored # NoBlob

\* C10, as stated: every initialized Totp reached from NewTOTP by Validate,
\* OTP, ToBytes and TOTPFromBytes has digits in {6,7,8}, a positive stepSize,
\* a clientOffset within -1..1 and a key as long as the hash output.
C10_FieldsInRange ==
    Initialized
        => /\ otp.digits \in {6, 7, 8}
           /\ otp.stepSize > 0
           /\ otp.clientOffset \in {GoInt(-1), GoInt(0), GoInt(1)}
           /\ Len(otp.key) = HashSize(otp.hashFunction)

\* C10 fails here: the Totp restored on a build with 64-bit ints goes on being
\* used with a clientOffset of 4294967295.
C10_OffsetOutOfRange ==
    /\ Initialized
    /\ last.op = "OTP"
    /\ otp.digits \in {6, 7, 8}
    /\ otp.clientOffset = <<Limb - 1, Limb - 1>>
    /\ otp.clientOffset \notin {GoInt(-1), GoInt(0), GoInt(1)}

(***************************************************************************)
(* The crypto engine used one call at a time: engines of one context made  *)
(* in one process, records encrypted by them and by Totp.ToBytes, and      *)
(* records, whole or damaged, handed to Decrypt and to TOTPFromBytes.      *)
(***************************************************************************)
\* the identifier every engine is made for, which is the issuer of the Totps
EngineContext == <<83, 49>>

\* the messages encrypted: a text and a type
Messages == {<<<<120>>, 0>>, <<<<120, 121>>, -1>>}

\* the draw behind the key files, which are written once
EngineDraws == {1}

\* the accounts whose Totps are serialised
Accounts == {<<97>>, <<98>>}

\* the Totp of an account, as NewTOTP makes it
TotpOf(account) == NewTOTP(account, EngineContext, SHA1, 6, account[1])

\* the first n bytes of a record, n <= 8 + nonceSize
Truncate(b, n) ==
    [ length |-> SubSeq(b.length, 1, IF n < 8 THEN n ELSE 8),
      nonce |-> IF n <= 8 THEN <<>>
                ELSE IF n - 8 >= nonceSize THEN b.nonce
                ELSE <<"cut", n - 8, b.nonce>>,
      data |-> NoBlob.data ]

\* byte i of the sealed data changed: data sealed under no key
FlipData(b, i) == [b EXCEPT !.data.key = <<"flipped", i, @>>]

\* byte i of the length header changed
FlipLength(b, i) == [b EXCEPT !.length[i] = 255 - @]

\* byte i of the nonce changed: another nonce
FlipNonce(b, i) == [b EXCEPT !.nonce = <<"flipped", i, @>>]

DamageKinds == {"none", "cut", "data", "length", "nonce"}

\* where a record is cut or changed
Positions(b, kind) ==
    CASE kind = "cut" -> {0, 8, 8 + nonceSize}
      [] kind = "data" -> {1, DataLen(b.data)}
      [] kind = "length" -> {1, 8}
      [] kind = "nonce" -> {1, nonceSize}
      [] OTHER -> {0}

Damaged(b, kind, at) ==
    CASE kind = "cut" -> Truncate(b, at)
      [] kind = "data" -> FlipData(b, at)
      [] kind = "length" -> FlipLength(b, at)
      [] kind = "nonce" -> FlipNonce(b, at)
      [] OTHER -> b

\* InitCryptoEngine(context): engines are numbered in the order they are made
NewEngine ==
    \E id \in EngineIds, draw \in EngineDraws :
        /\ engines[id] = NoEngine
        /\ \A j \in EngineIds : j < id => engines[j] # NoEngine
        /\ LET e == InitCryptoEngine(EngineContext, files, draw)
           IN  /\ engines' = IF e.err = ErrNone
                             THEN [engines EXCEPT ![id] = e.engine]
                             ELSE engines
               /\ files' = e.files
        /\ received' = NoReceipt
        /\ UNCHANGED <<now, intSize, hmacTable, otpNil, otp, stored, storedFrom, last>>
        /\ UNCHANGED <<outbox, counterVars, recoveryVars, pureVars, cacheVars, keyCall>>

\* NewMessage(text, type), engine.NewEncryptedMessage(message), ToBytes()
Encrypt ==
    \E id \in EngineIds, message \in Messages :
        /\ engines[id] # NoEngine
        /\ Len(outbox) < MaxMessages
        /\ LET m == NewMessage(message[1], message[2])
               r == NewEncryptedMessage(engines[id], m.msg)
           IN  /\ m.err = ErrNone
               /\ engines' = [engines EXCEPT ![id] = r.engine]
               /\ outbox' = Append(outbox, [ bytes |-> EncryptedMessageToBytes(r.m),
                                             msg |-> m.msg, by |-> id ])
        /\ received' = NoReceipt
        /\ UNCHANGED <<totpVars, counterVars, recoveryVars, pureVars, cacheVars, keyCall>>

\* Totp.ToBytes of the Totp of some account
SerializeTotp ==
    \E account \in Accounts, draw \in EngineDraws :
        /\ Len(outbox) < MaxMessages
        /\ LET r == ToBytes(FALSE, TotpOf(account), files, draw)
           IN  /\ r.err = ErrNone
               /\ files' = r.files
               /\ outbox' = Append(outbox,
                      [ bytes |-> r.bytes,
                        msg |-> NewMessage(totpBuffer(TotpOf(account)), messageType).msg,
                        by |-> 0 ])
        /\ received' = NoReceipt
        /\ UNCHANGED <<now, intSize, hmacTable, otpNil, otp, stored, storedFrom, last>>
        /\ UNCHANGED <<engines, counterVars, recoveryVars, pureVars, cacheVars, keyCall>>

\* engine.Decrypt of the newest record, whole or damaged
Receive ==
    \E id \in EngineIds, i \in {Len(outbox)} \ {0}, kind \in DamageKinds :
        \E at \in Positions(outbox[i].bytes, kind) :
            /\ engines[id] # NoEngine
            /\ LET r == Decrypt(engines[id], Damaged(outbox[i].bytes, kind, at), intSize)
               IN  received' = [ op |-> "Decrypt", by |-> id, from |-> i, damage |-> kind,
                                 at |-> at, msg |-> r.msg, otp |-> ZeroTotp,
                                 err |-> r.err ]
            /\ UNCHANGED <<engines, outbox, totpVars, counterVars, recoveryVars, pureVars, cacheVars, keyCall>>

\* TOTPFromBytes of the newest record, if Totp.ToBytes made it, whole or damaged
Restore ==
    \E i \in {Len(outbox)} \ {0}, kind \in DamageKinds, draw \in EngineDraws :
        \E at \in Positions(outbox[i].bytes, kind) :
            /\ outbox[i].by = 0
            /\ LET r == TOTPFromBytes(Damaged(outbox[i].bytes, kind, at), EngineContext,
                                      files, draw, intSize)
               IN  /\ files' = r.files
                   /\ received' = [ op |-> "TOTPFromBytes", by |-> 0, from |-> i,
                                    damage |-> kind, at |-> at, msg |-> NilMessage,
                                    otp |-> r.otp, err |-> r.err ]
            /\ UNCHANGED <<now, intSize, hmacTable, otpNil, otp, stored, storedFrom, last>>
            /\ UNCHANGED <<engines, outbox, counterVars, recoveryVars, pureVars, cacheVars, keyCall>>

InitEngine ==
    /\ IdleTotp({32, 64}, NoFiles)
    /\ IdleEngines /\ IdleCounter /\ IdleRecovery /\ IdleSteps /\ IdleOthers

NextEngine == NewEngine \/ Encrypt \/ SerializeTotp \/ Receive \/ Restore

SpecEngine == InitEngine /\ [][NextEngine]_vars

(***************************************************************************)
(* Properties of the crypto engine used one call at a time.                *)
(***************************************************************************)
\* C11, as stated: the encrypted records produced in one process under one
\* context carry pairwise different nonces, whichever engine or Totp.ToBytes
\* call produced them.
C11_NoncesDistinct ==
    \A i, j \in 1..Len(outbox) :
        i # j => outbox[i].bytes.nonce # outbox[j].bytes.nonce

\* C11 fails here: the Totps of two accounts of one issuer were serialised, and
\* the two different texts are sealed under the same key and the same nonce.
C11_NonceUsedTwice ==
    \E i, j \in 1..Len(outbox) :
        /\ i # j
        /\ outbox[i].by = 0
        /\ outbox[j].by = 0
        /\ outbox[i].msg.Text # outbox[j].msg.Text
        /\ outbox[i].bytes.data.key = outbox[j].bytes.data.key
        /\ outbox[i].bytes.nonce = outbox[j].bytes.nonce

\* the record the call just made was given, before any damage
Sent == outbox[received.from]

\* C13, as stated: Decrypt, on any engine of the context, of the bytes of an
\* encrypted message with a non-empty text returns a message with the same
\* version, type and text.
C13_RoundTrip ==
    (received.op = "Decrypt" /\ received.damage = "none")
        => /\ received.err = ErrNone
           /\ ~received.msg.isNil
           /\ received.msg.Version = Sent.msg.Version
           /\ received.msg.Type = Sent.msg.Type
           /\ received.msg.Text = Sent.msg.Text

\* C13 fails here: on a build with 64-bit ints a message of type -1, encrypted
\* by one engine and decrypted by another, comes back with type 4294967295.
C13_TypeNotRestored ==
    /\ received.op = "Decrypt"
    /\ received.damage = "none"
    /\ received.err = ErrNone
    /\ intSize = 64
    /\ received.by # Sent.by
    /\ Sent.msg.Type = GoInt(-1)
    /\ received.msg.Text = Sent.msg.Text
    /\ received.msg.Type = <<Limb - 1, Limb - 1>>

\* C14: Decrypt of fewer than 33 bytes, or of none, returns
\* MessageParsingError; Decrypt of a whole record with a byte of its sealed
\* data changed returns MessageDecryptionError; neither returns a message.
C14_DamagedRejected ==
    received.op = "Decrypt"
        => /\ received.damage = "cut"
                => received.err = MessageParsingError /\ received.msg.isNil
           /\ received.damage = "data"
                => received.err = MessageDecryptionError /\ received.msg.isNil

\* C14 happens: a record cut to 32 bytes was refused as unparsable by the
\* engine that had encrypted it.
C14_CutRefused ==
    /\ received.op = "Decrypt"
    /\ received.damage = "cut"
    /\ received.at = 8 + nonceSize
    /\ received.by = Sent.by
    /\ received.err = MessageParsingError
    /\ received.msg.isNil

\* C15, as stated: a ToBytes output or another record with a byte of its
\* length header or of its nonce changed makes Decrypt and TOTPFromBytes fail.
C15_HeaderAuthenticated ==
    (received.op \in {"Decrypt", "TOTPFromBytes"} /\ received.damage \in {"length", "nonce"})
        => received.err # ErrNone

\* C15 fails here: TOTPFromBytes of a ToBytes output with a byte of the length
\* header changed succeeds and returns the Totp that was serialised.
C15_LengthIgnored ==
    /\ received.op = "TOTPFromBytes"
    /\ received.damage = "length"
    /\ received.err = ErrNone
    /\ \E account \in Accounts : received.otp = TotpOf(account)

(***************************************************************************)
(* One engine used by several threads: fetchAndIncrement step by step.     *)
(***************************************************************************)
MaxThreads == 2
MaxCalls == 4

ThreadIds == 1..MaxThreads

\* a thread outside fetchAndIncrement
AtRest == [pc |-> "rest", counterString |-> <<>>, reset |-> FALSE]

\* the counter one call before its largest value
NearMaxUint64 == <<Limb - 1, Limb - 1, Limb - 1, Limb - 2>>

\* a faulty variant: the lock is granted whoever holds the mutex
LockUnguarded(holder) == TRUE

\* sync.Mutex.Lock returns once no thread holds the mutex
Lock(holder) == holder = NoThread

\* a <= b on four limbs
LeqU64(a, b) ==
    \/ a = b
    \/ \E i \in 1..4 : a[i] < b[i] /\ \A j \in 1..(i - 1) : a[j] = b[j]

\* the calls made so far, returned or not
Calls == Len(issued) + Cardinality({t \in ThreadIds : threads[t].pc # "rest"})

\* a thread calls fetchAndIncrement (from NewEncryptedMessage or
\* NewEncryptedMessageWithPubKey)
Call(t) ==
    /\ threads[t].pc = "rest"
    /\ Calls < MaxCalls
    /\ threads' = [threads EXCEPT ![t] = [AtRest EXCEPT !.pc = "lock"]]
    /\ UNCHANGED <<sharedEngine, counterMutex, issued>>

\* engine.counterMutex.Lock()
AcquireLock(t) ==
    /\ threads[t].pc = "lock"
    /\ Lock(counterMutex)
    /\ counterMutex' = t
    /\ threads' = [threads EXCEPT ![t].pc = "check"]
    /\ UNCHANGED <<sharedEngine, issued>>

\* if engine.counter == math.MaxUint64 { engine.counter = 0 }
ResetAtMax(t) ==
    /\ threads[t].pc = "check"
    /\ IF sharedEngine.counter = MaxUint64
       THEN /\ sharedEngine' = [sharedEngine EXCEPT !.counter = U64(0)]
            /\ threads' = [threads EXCEPT ![t].pc = "format", ![t].reset = TRUE]
       ELSE /\ sharedEngine' = sharedEngine
            /\ threads' = [threads EXCEPT ![t].pc = "format"]
    /\ UNCHANGED <<counterMutex, issued>>

\* counterString := strconv.FormatUint(engine.counter, 10)
Format(t) ==
    /\ threads[t].pc = "format"
    /\ threads' = [threads EXCEPT ![t].pc = "add",
                                  ![t].counterString = FormatUint(sharedEngine.counter)]
    /\ UNCHANGED <<sharedEngine, counterMutex, issued>>

\* engine.counter += 1
Add(t) ==
    /\ threads[t].pc = "add"
    /\ sharedEngine' = [sharedEngine EXCEPT !.counter = IncU64At(@, 4)]
    /\ threads' = [threads EXCEPT ![t].pc = "return"]
    /\ UNCHANGED <<counterMutex, issued>>

\* return counterString, and the deferred engine.counterMutex.Unlock()
Return(t) ==
    /\ threads[t].pc = "return"
    /\ counterMutex' = NoThread
    /\ issued' = Append(issued, [by |-> t, counterString |-> threads[t].counterString,
                                 reset |-> threads[t].reset])
    /\ threads' = [threads EXCEPT ![t] = AtRest]
    /\ UNCHANGED sharedEngine

InitCounter ==
    LET r == InitCryptoEngine(EngineContext, NoFiles, 1)
    IN  /\ IdleTotp({64}, r.files)
        /\ IdleEngines /\ IdleRecovery /\ IdleSteps /\ IdleOthers
        /\ \E c \in {U64(0), NearMaxUint64} : sharedEngine = [r.engine EXCEPT !.counter = c]
        /\ counterMutex = NoThread
        /\ threads = [t \in ThreadIds |-> AtRest]
        /\ issued = <<>>

NextCounter ==
    \E t \in ThreadIds :
        /\ Call(t) \/ AcquireLock(t) \/ ResetAtMax(t) \/ Format(t) \/ Add(t) \/ Return(t)
        /\ UNCHANGED <<totpVars, engineVars, recoveryVars, pureVars, cacheVars, keyCall>>

SpecCounter == InitCounter /\ [][NextCounter]_vars

\* the counter was set back to zero by the call that returned the i-th value
\* or by one that returned before it
WrappedBy(i) == \E k \in 1..i : issued[k].reset

\* C12: the values that concurrent fetchAndIncrement calls on one engine
\* return are pairwise distinct, and the stored counter never decreases, as
\* long as the counter has not wrapped from its largest value to zero.
C12_DistinctAndMonotonic ==
    /\ [](\A i, j \in 1..Len(issued) :
            (i < j /\ ~WrappedBy(j)) => issued[i].counterString # issued[j].counterString)
    /\ [][sharedEngine.counter # MaxUint64
            => LeqU64(sharedEngine.counter, sharedEngine'.counter)]_vars

\* C12 happens: two threads were inside fetchAndIncrement at the same time, one
\* waiting for the mutex, and their calls returned different values.
C12_TwoThreadsServed ==
    /\ Len(issued) >= 2
    /\ issued[1].by # issued[2].by
    /\ ~WrappedBy(2)
    /\ issued[1].counterString # issued[2].counterString
    /\ \E t \in ThreadIds : threads[t].pc = "lock" /\ counterMutex \notin {NoThread, t}

(***************************************************************************)
(* Recovery codes.  A string is the sequence of its bytes; a bcrypt hash   *)
(* is the pair of its salt and the password it was made from, and matches  *)
(* that password only.                                                     *)
(***************************************************************************)
\* a faulty variant: the alphabet with the letter L in it
alphabetWithL ==
    << 65, 66, 67, 68, 69, 70, 71, 72, 73, 74, 75, 76, 77, 78, 79, 80, 81, 82, 83, 84,
       85, 86, 87, 88, 89, 90, 48, 49, 50, 51, 52, 53, 54, 55, 56, 57 >>

\* "ABCDEFGHIJKMNOPQRSTUVWXYZ0123456789"
alphabet ==
    << 65, 66, 67, 68, 69, 70, 71, 72, 73, 74, 75, 77, 78, 79, 80, 81, 82, 83, 84,
       85, 86, 87, 88, 89, 90, 48, 49, 50, 51, 52, 53, 54, 55, 56, 57 >>

recoveryCodeLength == 12

\* the number of codes GenerateRecoveryCodes makes
NumCodes == 10

\* '-'
Dash == 45

\* [0-9A-Z]
UpperOrDigit == (48..57) \cup (65..90)

\* rgx.MatchString(code) for ^[0-9A-Z]{6}-[0-9A-Z]{6}$
ValidRecoveryCode(code) ==
    /\ Len(code) = 6 + 1 + 6
    /\ \A k \in 1..6 : code[k] \in UpperOrDigit
    /\ code[7] = Dash
    /\ \A k \in 8..13 : code[k] \in UpperOrDigit

\* the inner loop of GenerateRecoveryCodes from j on, for the code of index i
RECURSIVE WriteCode(_, _, _, _)
WriteCode(byt, i, j, builder) ==
    IF j >= recoveryCodeLength THEN builder
    ELSE LET dashed == IF recoveryCodeLength \div 2 = j THEN Append(builder, Dash)
                       ELSE builder
             randNumber == byt[i * recoveryCodeLength + j + 1] % Len(alphabet)
         IN  WriteCode(byt, i, j + 1, Append(dashed, alphabet[randNumber + 1]))

\* byt is what rand.Reader gave: 10 * recoveryCodeLength bytes
GenerateRecoveryCodes(byt) == [n \in 1..NumCodes |-> WriteCode(byt, n - 1, 0, <<>>)]

\* bcrypt.GenerateFromPassword with a salt that no other hash has
GenerateFromPassword(password, salt) == <<"bcrypt", salt, password>>

\* a faulty variant: every password is accepted
CompareAny(hash, password) == TRUE

\* bcrypt.CompareHashAndPassword returns nil
CompareHashAndPassword(hash, password) == hash[3] = password

\* each goroutine writes the hash of codes[i] at index i
BCryptRecoveryCodes(plain) == [i \in 1..Len(plain) |-> GenerateFromPassword(plain[i], i)]

\* the index at which the loop of UseRecoveryCode breaks, counted from 1, or 0
RECURSIVE FindUse(_, _, _)
FindUse(list, input, i) ==
    IF i > Len(list) THEN 0
    ELSE IF CompareHashAndPassword(list[i], input) THEN i
    ELSE FindUse(list, input, i + 1)

\* the match nearest to the end of the list, or 0
RECURSIVE FindLastUse(_, _, _)
FindLastUse(list, input, i) ==
    IF i < 1 THEN 0
    ELSE IF CompareHashAndPassword(list[i], input) THEN i
    ELSE FindLastUse(list, input, i - 1)

\* a faulty variant: the last match is removed rather than the first
UseLastRecoveryCode(list, inputCode) ==
    LET use == FindLastUse(list, inputCode, Len(list))
    IN  IF use = 0
        THEN [ret |-> [isNil |-> TRUE, list |-> <<>>], ok |-> FALSE, codes |-> list]
        ELSE [ret |-> [isNil |-> FALSE,
                       list |-> [set \in 1..(Len(list) - 1) |->
                                    IF set < use THEN list[set] ELSE list[set + 1]]],
              ok |-> TRUE, codes |-> list]

\* ret, the bool, and the caller's slice as the call leaves it: no statement
\* of the function assigns to an element of codes
UseRecoveryCode(list, inputCode) ==
    LET use == FindUse(list, inputCode, 1)
    IN  IF use = 0
        THEN [ret |-> [isNil |-> TRUE, list |-> <<>>], ok |-> FALSE, codes |-> list]
        ELSE [ret |-> [isNil |-> FALSE,
                       list |-> [set \in 1..(Len(list) - 1) |->
                                    IF set < use THEN list[set] ELSE list[set + 1]]],
              ok |-> TRUE, codes |-> list]

MaxSeed == 255
MaxUses == 2

\* how far apart the random bytes of neighbouring positions are
Strides == {0, 1, 8}

\* what io.ReadFull(rand.Reader, byt) leaves in byt
ReadFull(seed, stride) ==
    [k \in 1..(NumCodes * recoveryCodeLength) |-> (seed + (k - 1) * stride) % 256]

\* a well-formed code that GenerateRecoveryCodes cannot make
ForeignCode == <<76, 76, 76, 76, 76, 76, 45, 76, 76, 76, 76, 76, 76>>

\* what a user may type: the first, the second or the last code made, or another
Typed == {codes[1], codes[2], codes[NumCodes], ForeignCode}

Generate ==
    \E seed \in 0..MaxSeed, stride \in Strides :
        /\ codes = <<>>
        /\ codes' = GenerateRecoveryCodes(ReadFull(seed, stride))
        /\ UNCHANGED <<hashed, recovered>>

Hash ==
    /\ codes # <<>>
    /\ hashed = <<>>
    /\ recovered = NoUse
    /\ hashed' = BCryptRecoveryCodes(codes)
    /\ UNCHANGED <<codes, recovered>>

\* UseRecoveryCode on the list the caller holds; the caller goes on with the
\* list returned if the code was accepted
Use ==
    /\ hashed # <<>>
    /\ recovered.calls < MaxUses
    /\ \E inputCode \in Typed :
        LET r == UseRecoveryCode(hashed, inputCode)
        IN  /\ recovered' = [ input |-> inputCode, before |-> hashed, after |-> r.codes,
                              ret |-> r.ret, ok |-> r.ok, calls |-> recovered.calls + 1 ]
            /\ hashed' = IF r.ok THEN r.ret.list ELSE r.codes
    /\ UNCHANGED codes

InitRecovery ==
    /\ IdleTotp({64}, NoFiles)
    /\ IdleEngines /\ IdleCounter /\ IdleRecovery /\ IdleSteps /\ IdleOthers

NextRecovery ==
    /\ Generate \/ Hash \/ Use
    /\ UNCHANGED <<totpVars, engineVars, counterVars, pureVars, cacheVars, keyCall>>

SpecRecovery == InitRecovery /\ [][NextRecovery]_vars

\* the letters without L, and the digits
WithoutL == UpperOrDigit \ {76}

\* C16: whatever the 120 random bytes, GenerateRecoveryCodes returns 10 codes
\* of 13 characters, '-' at index 6 and the others from the 35 characters of
\* the alphabet without L, and ValidRecoveryCode accepts each.
C16_CodeFormat ==
    codes # <<>>
        => /\ Len(codes) = 10
           /\ Cardinality(WithoutL) = 35
           /\ \A n \in 1..Len(codes) :
                /\ Len(codes[n]) = 13
                /\ codes[n][6 + 1] = Dash
                /\ \A k \in (1..13) \ {6 + 1} : codes[n][k] \in WithoutL
                /\ ValidRecoveryCode(codes[n])

\* C16 happens: codes were made that hold a letter next to L, the last
\* character of the alphabet and a dash in the middle.
C16_CodesMade ==
    /\ Len(codes) = 10
    /\ \E n \in 1..10 : \E k, l \in 1..13 : codes[n][k] = 75 /\ codes[n][l] = 57
    /\ \A n \in 1..10 : codes[n][7] = Dash /\ ValidRecoveryCode(codes[n])

\* the indices of the hashes of a list that match a code
Matches(list, inputCode) == {i \in 1..Len(list) : list[i][3] = inputCode}

\* the list without its element of index u
Without(list, u) == SubSeq(list, 1, u - 1) \o SubSeq(list, u + 1, Len(list))

\* C17: UseRecoveryCode returns true and the list without its first matching
\* element, the others in order, if a hash matches the input, and (nil, false)
\* if none does; the list passed in is as it was.
C17_FirstMatchRemoved ==
    recovered.calls > 0
        => LET m == Matches(recovered.before, recovered.input)
           IN  /\ recovered.after = recovered.before
               /\ m = {} => (~recovered.ok /\ recovered.ret.isNil)
               /\ m # {} =>
                    /\ recovered.ok
                    /\ ~recovered.ret.isNil
                    /\ Len(recovered.ret.list) = Len(recovered.before) - 1
                    /\ \E u \in m : /\ \A v \in m : u <= v
                                    /\ recovered.ret.list = Without(recovered.before, u)

\* C17 happens: of two hashes of the same code, the second and the last of the
\* list, the call removed the second and kept the last; its input was intact.
C17_SecondOfTenUsed ==
    /\ recovered.ok
    /\ Len(recovered.before) = 10
    /\ Matches(recovered.before, recovered.input) = {2, 10}
    /\ recovered.ret.list = Without(recovered.before, 2)
    /\ recovered.after = recovered.before

\* C18, as stated: once UseRecoveryCode has accepted a code and the caller
\* goes on with the list returned, the next call with the same input on that
\* list returns false.
C18_SingleUse ==
    [][(/\ recovered.ok
        /\ recovered'.calls = recovered.calls + 1
        /\ recovered'.input = recovered.input
        /\ recovered'.before = recovered.ret.list)
            => ~recovered'.ok]_vars

\* C18 fails here: a code made by GenerateRecoveryCodes was accepted twice in a
\* row, the second time on the list the first call returned.
C18_UsedTwice ==
    /\ recovered.calls = 2
    /\ recovered.ok
    /\ Len(recovered.before) = 10 - 1
    /\ Len(recovered.ret.list) = 10 - 2
    /\ \E u \in 1..10 :
        /\ \A i \in 1..Len(recovered.before) : recovered.before[i][2] # u
        /\ codes[u] = recovered.input

(***************************************************************************)
(* increment on its own, over times from 1970 to the end of int64.         *)
(***************************************************************************)
MaxSmallTime == 130

StepSizes == {1, 30, 60}

\* 2^52 + 1 and 2^53 + 1, the first odd quotients past the reach of n + 0.5
\* and of float64
PastHalves == <<Pow2(SignificandBits - 1 - 48), 0, 0, 1>>
PastSignificand == <<Pow2(SignificandBits - 48), 0, 0, 1>>

\* math.MaxInt64
MaxInt64 == <<Limb \div 2 - 1, Limb - 1, Limb - 1, Limb - 1>>

\* the time of TestIncrementCounter
TestTime == 1438601387

Timestamps ==
    {U64(n) : n \in 0..MaxSmallTime}
        \cup { U64(TestTime), PastHalves, PastSignificand, MaxInt64,
               [PastHalves EXCEPT ![4] = 0], [PastHalves EXCEPT ![4] = 2],
               [PastHalves EXCEPT ![1] = 30 * @, ![4] = 30 + 29] }

\* one call of increment
Increment ==
    \E ts \in Timestamps, stepSize \in StepSizes :
        /\ timeStep' = [ called |-> TRUE, ts |-> ts, stepSize |-> stepSize,
                         T |-> increment(ts, stepSize) ]
        /\ UNCHANGED <<totpVars, engineVars, counterVars, recoveryVars, converted, cacheVars, keyCall>>

InitIncrement ==
    /\ IdleTotp({64}, NoFiles)
    /\ IdleEngines /\ IdleCounter /\ IdleRecovery /\ IdleSteps /\ IdleOthers

NextIncrement == Increment

SpecIncrement == InitIncrement /\ [][NextIncrement]_vars

\* the whole steps in ts and what is left of ts after them
Quotient == DivInt64(timeStep.ts, timeStep.stepSize)
Remainder == ModAt(timeStep.ts, timeStep.stepSize, 1, 0)

\* ts / stepSize rounded to the nearest integer, a half upwards
Nearest == IF 2 * Remainder >= timeStep.stepSize THEN IncU64At(Quotient, 4) ELSE Quotient

\* the quotient is one that float64 and n + 0.5 hold exactly
Exact == Quotient[1] < Pow2(SignificandBits - 1 - 48)

\* C19, as stated: increment(t, stepSize) is t / stepSize rounded to the
\* nearest integer, halves away from zero, for every t >= 0 and stepSize > 0.
C19_NearestStep == timeStep.called => timeStep.T = Nearest

\* C19, amended: increment divides as integers before it rounds, so for
\* every quotient that float64 holds exactly it returns the whole steps in t,
\* which is the nearest integer only while less than half a step is left over.
C19_WholeStepsBelowNearest ==
    (timeStep.called /\ Exact)
        => /\ timeStep.T = Quotient
           /\ timeStep.T = Nearest <=> 2 * Remainder < timeStep.stepSize
           /\ timeStep.ts[1] = 0 /\ timeStep.ts[2] = 0
                => NatOf(timeStep.T) = NatOf(timeStep.ts) \div timeStep.stepSize

\* C19 happens: one second short of two steps of 30 s the step is 1, and the
\* nearest integer to 59/30 is 2.
C19_OneAtFiftyNine ==
    /\ timeStep.called
    /\ timeStep.ts = U64(59)
    /\ timeStep.stepSize = 30
    /\ timeStep.T = U64(1)
    /\ Nearest = U64(2)

\* C20, as stated: increment(ts, stepSize) is floor(ts / stepSize) for every
\* ts >= 0 and stepSize > 0; with stepSize 30 it is 1 at 59, 2 at 60 and
\* 47953379 at 1438601387.
C20_WholeSteps ==
    timeStep.called
        => /\ timeStep.T = Quotient
           /\ timeStep.stepSize = 30 =>
                /\ timeStep.ts = U64(59) => timeStep.T = U64(1)
                /\ timeStep.ts = U64(60) => timeStep.T = U64(2)
                /\ timeStep.ts = U64(TestTime) => timeStep.T = U64(47953379)

\* C20 fails here: at ts = 2^52 + 1 and stepSize 1 increment returns 2^52 + 2.
C20_StepPastTime ==
    /\ timeStep.called
    /\ timeStep.ts = PastHalves
    /\ timeStep.stepSize = 1
    /\ timeStep.T = [PastHalves EXCEPT ![4] = 2]

(***************************************************************************)
(* The integer codecs on their own.                                        *)
(***************************************************************************)
Packages == {"bigendian", "smallendian"}

\* limbs that put different values in their two bytes, and the extremes
SampleLimbs == {0, 1, 258, Limb \div 2, Limb - 1}

\* the upper halves of 32-bit ints, the sign included
SampleHighs == {0 - Limb \div 2, -2, -1, 0, 1, Limb \div 2 - 1}

Uint64s == {<<a, b, c, d>> : a \in {0, 258, Limb - 1}, b \in {0, Limb - 1}, c \in SampleLimbs, d \in SampleLimbs}

Int32s == {<<hi, lo>> : hi \in SampleHighs, lo \in SampleLimbs}

\* FromUint64(ToUint64(n)) in one of the two packages
ConvertUint64 ==
    \E package \in Packages, n \in Uint64s :
        /\ LET data == IF package = "bigendian" THEN ToUint64(n) ELSE LEToUint64(n)
               back == IF package = "bigendian" THEN FromUint64(data) ELSE LEFromUint64(data)
           IN  converted' = [ op |-> "uint64", package |-> package, arg |-> n,
                              bytes |-> data, back |-> back ]
        /\ UNCHANGED <<totpVars, engineVars, counterVars, recoveryVars, timeStep, cacheVars, keyCall>>

\* FromInt(ToInt(n)) in one of the two packages, on the build's int
ConvertInt ==
    \E package \in Packages, n \in Int32s :
        /\ LET data == IF package = "bigendian" THEN ToInt(n) ELSE LEToInt(n)
               back == IF package = "bigendian" THEN FromInt(data, intSize)
                       ELSE LEFromInt(data, intSize)
           IN  converted' = [ op |-> "int", package |-> package, arg |-> n,
                              bytes |-> data, back |-> back ]
        /\ UNCHANGED <<totpVars, engineVars, counterVars, recoveryVars, timeStep, cacheVars, keyCall>>

InitCodec ==
    /\ IdleTotp({32, 64}, NoFiles)
    /\ IdleEngines /\ IdleCounter /\ IdleRecovery /\ IdleSteps /\ IdleOthers

NextCodec == ConvertUint64 \/ ConvertInt

SpecCodec == InitCodec /\ [][NextCodec]_vars

\* the byte of the argument's most significant eight bits (of its low 32 bits
\* for an int)
TopByte == (converted.arg[1] \div 256) % 256

\* C21, as stated: FromUint64(ToUint64(u)) = u for every uint64 and
\* FromInt(ToInt(i)) = i for every signed 32-bit int, negative ones included,
\* in both packages; the most significant byte is first in big-endian and
\* last in little-endian.
C21_CodecsRoundTrip ==
    converted.op \in {"uint64", "int"}
        => /\ converted.back = converted.arg
           /\ converted.package = "bigendian" => converted.bytes[1] = TopByte
           /\ converted.package = "smallendian"
                => converted.bytes[Len(converted.bytes)] = TopByte

\* C21 fails here: on a build with 64-bit ints the little-endian FromInt turns
\* the bytes of -1 into 4294967295.
C21_NegativeNotRestored ==
    /\ converted.op = "int"
    /\ converted.package = "smallendian"
    /\ intSize = 64
    /\ converted.arg = GoInt(-1)
    /\ converted.bytes = <<255, 255, 255, 255>>
    /\ converted.back = <<Limb - 1, Limb - 1>>

(***************************************************************************)
(* The key files of one context, "s1", under InitCryptoEngine calls whose  *)
(* file writes and deletes may fail.                                       *)
(***************************************************************************)
\* "S1" and "s1": two identifiers of the same sanitized context
Identifiers == {<<83, 49>>, <<115, 49>>}

KeyDraws == 1..MaxKeyValue

\* at most one slot's file fails to be created or written in a call, and the
\* delete fails or not
Faults == [slot : KeySlots, write : WriteFaults, delete : BOOLEAN]

\* InitCryptoEngine(id); keyCall.clean says that no call so far met a fault
KeyInit ==
    \E id \in Identifiers, draw \in KeyDraws, faults \in Faults :
        LET r == InitCryptoEngineOn(id, files, draw, faults)
        IN  /\ files' = r.files
            /\ keyCall' = [ op |-> "InitCryptoEngine", id |-> id, draw |-> draw,
                            slot |-> "", faults |-> faults, before |-> files,
                            engine |-> r.engine, err |-> r.err,
                            clean |-> keyCall.clean /\ faults.write = "none"
                                        /\ ~faults.delete ]

\* writeKey on a key file that exists
WriteAgain ==
    \E slot \in KeySlots, draw \in KeyDraws :
        /\ files[slot] # NoKey
        /\ LET w == writeKey(files, slot, generateSecretKey(draw, slot), NoFaults)
           IN  /\ files' = w.files
               /\ keyCall' = [ op |-> "writeFile", id |-> <<>>, draw |-> draw,
                               slot |-> slot, faults |-> NoFaults, before |-> files,
                               engine |-> NoEngine, err |-> w.err,
                               clean |-> keyCall.clean ]

InitKeys ==
    /\ IdleTotp({64}, NoFiles)
    /\ IdleEngines /\ IdleCounter /\ IdleRecovery /\ IdleSteps /\ IdleOthers

NextKeys ==
    /\ KeyInit \/ WriteAgain
    /\ UNCHANGED <<now, intSize, hmacTable, otpNil, otp, stored, storedFrom, last>>
    /\ UNCHANGED <<engineVars, counterVars, recoveryVars, pureVars, cacheVars>>

SpecKeys == InitKeys /\ [][NextKeys]_vars

\* the key an engine holds for a slot
KeyOf(engine, slot) ==
    CASE slot = "salt" -> engine.salt
      [] slot = "secret" -> engine.secretKey
      [] slot = "nonce" -> engine.nonceKey
      [] slot = "public" -> engine.publicKey
      [] slot = "private" -> engine.privateKey

\* the key a file holds, if it holds one
FileKey(fs, slot) ==
    IF fs[slot] \in {NoKey, EmptyFile} THEN <<"no key">> ELSE HexDecode(fs[slot])

\* C22: while the file system works, InitCryptoEngine creates the file of
\* every slot that has none and leaves every file that exists as it is, the
\* engine it returns holds for every slot the value in the file, and a write
\* to a key file that exists returns os.ErrExist and changes nothing.
C22_WriteOnce ==
    [][keyCall'.clean =>
        /\ keyCall'.op = "InitCryptoEngine" =>
            /\ keyCall'.err = ErrNone
            /\ \A slot \in KeySlots :
                /\ files[slot] # NoKey => files'[slot] = files[slot]
                /\ files[slot] = NoKey
                    => files'[slot] = HexEncode(generateSecretKey(keyCall'.draw, slot))
                /\ KeyOf(keyCall'.engine, slot) = FileKey(files', slot)
        /\ keyCall'.op = "writeFile" => (keyCall'.err = ErrExist /\ files' = files)]_vars

\* C22 happens: a later InitCryptoEngine, under another spelling of the
\* identifier and with other random bytes at hand, loaded the keys that the
\* first call had stored.
C22_LoadedWhatWasStored ==
    /\ keyCall.op = "InitCryptoEngine"
    /\ keyCall.clean
    /\ keyCall.err = ErrNone
    /\ keyCall.id = <<115, 49>>
    /\ keyCall.draw = 2
    /\ files = keyCall.before
    /\ \A slot \in KeySlots :
        /\ files[slot] = HexEncode(generateSecretKey(1, slot))
        /\ KeyOf(keyCall.engine, slot) = generateSecretKey(1, slot)

\* C25, as stated: when the private key file cannot be written after the
\* public key file was, the public key file is deleted and InitCryptoEngine
\* returns an error; and whatever writes and deletes fail, InitCryptoEngine
\* succeeds only if both files of the pair exist and the engine holds their
\* contents.
C25_KeyPairAtomic ==
    keyCall.op = "InitCryptoEngine"
        => /\ ( /\ keyCall.before["public"] = NoKey
                /\ keyCall.before["salt"] # NoKey
                /\ FaultOn(keyCall.faults, "private") # "none"
                /\ ~keyCall.faults.delete )
                    => (keyCall.err # ErrNone /\ files["public"] = NoKey)
           /\ keyCall.err = ErrNone
                => /\ files["public"] # NoKey
                   /\ files["private"] # NoKey
                   /\ keyCall.engine.publicKey = FileKey(files, "public")
                   /\ keyCall.engine.privateKey = FileKey(files, "private")

\* C25 fails here: InitCryptoEngine succeeded on a public key file without a
\* private key file, and the engine holds the all-zero private key.
C25_PublicWithoutPrivate ==
    /\ keyCall.op = "InitCryptoEngine"
    /\ keyCall.err = ErrNone
    /\ keyCall.faults.write = "none"
    /\ ~keyCall.faults.delete
    /\ files["public"] # NoKey
    /\ files["private"] = NoKey
    /\ keyCall.engine.publicKey = FileKey(files, "public")
    /\ keyCall.engine.privateKey = NoKey

(***************************************************************************)
(* One engine used by several threads for public-key messages:             *)
(* NewEncryptedMessageWithPubKey and DecryptWithPublicKey step by step,    *)
(* around the mutex of the cache of pre-shared keys.                       *)
(***************************************************************************)
KeyNotValidError == "The provisioned public key is not valid"

\* the public keys of two peers, and the all-zero key
PeerKeys == {NoKey, generateSecretKey(2, "public"), generateSecretKey(3, "public")}

\* what is given to DecryptWithPublicKey: too few bytes, a record not sealed
\* by the peer for this engine, and one that was
ByteKinds == {"short", "forged", "sealed"}

\* a thread outside both functions, with the error of its last call
Outside(err) == [pc |-> "rest", op |-> "none", peer |-> NoKey, bytes |-> "", err |-> err]

\* NewEncryptedMessageWithPubKey up to engine.mutex.Lock(): the checks of the
\* peer's key, fetchAndIncrement and the nonce
StartEncrypt(t) ==
    \E peer \in PeerKeys :
        /\ threads[t].pc = "rest"
        /\ NatOf(sharedEngine.counter) < MaxCalls
        /\ IF peer = NoKey
           THEN /\ threads' = [threads EXCEPT ![t] = Outside(KeyNotValidError)]
                /\ sharedEngine' = sharedEngine
           ELSE /\ threads' = [threads EXCEPT ![t] =
                        [pc |-> "lock", op |-> "encrypt", peer |-> peer, bytes |-> "",
                         err |-> ErrNone]]
                /\ sharedEngine' = fetchAndIncrement(sharedEngine).engine
        /\ UNCHANGED <<mutex, preSharedKeysMap>>

\* DecryptWithPublicKey up to engine.mutex.Lock(): encryptedMessageFromBytes
StartDecrypt(t) ==
    \E peer \in PeerKeys, bytes \in ByteKinds :
        /\ threads[t].pc = "rest"
        /\ threads' = [threads EXCEPT ![t] =
                IF bytes = "short" THEN Outside(MessageParsingError)
                ELSE [pc |-> "lock", op |-> "decrypt", peer |-> peer, bytes |-> bytes,
                      err |-> ErrNone]]
        /\ UNCHANGED <<sharedEngine, mutex, preSharedKeysMap>>

\* engine.mutex.Lock()
LockMutex(t) ==
    /\ threads[t].pc = "lock"
    /\ Lock(mutex)
    /\ mutex' = t
    /\ threads' = [threads EXCEPT ![t].pc = "lookup"]
    /\ UNCHANGED <<sharedEngine, preSharedKeysMap>>

\* preSharedKey, ok := engine.preSharedKeysMap[sha224String], and the
\* statements up to the sealing or opening: on a hit both functions unlock;
\* on a miss the encryption goes on to precompute, the decryption to box.Open
Lookup(t) ==
    /\ threads[t].pc = "lookup"
    /\ IF threads[t].peer \in preSharedKeysMap
       THEN /\ mutex' = NoThread
            /\ threads' = [threads EXCEPT ![t].pc =
                                IF threads[t].op = "encrypt" THEN "seal" ELSE "open"]
       ELSE /\ mutex' = mutex
            /\ threads' = [threads EXCEPT ![t].pc =
                                IF threads[t].op = "encrypt" THEN "precompute" ELSE "open"]
    /\ UNCHANGED <<sharedEngine, preSharedKeysMap>>

\* box.Precompute, engine.preSharedKeysMap[sha224String] = preSharedKey,
\* engine.mutex.Unlock()
Precompute(t) ==
    /\ threads[t].pc = "precompute"
    /\ preSharedKeysMap' = preSharedKeysMap \cup {threads[t].peer}
    /\ mutex' = NoThread
    /\ threads' = [threads EXCEPT ![t].pc = "seal"]
    /\ UNCHANGED sharedEngine

\* box.SealAfterPrecomputation and the return of NewEncryptedMessageWithPubKey
SealAndReturn(t) ==
    /\ threads[t].pc = "seal"
    /\ threads' = [threads EXCEPT ![t] = Outside(ErrNone)]
    /\ UNCHANGED <<sharedEngine, mutex, preSharedKeysMap>>

\* decryptWithPreShared or box.Open, and the return of DecryptWithPublicKey
OpenAndReturn(t) ==
    /\ threads[t].pc = "open"
    /\ threads' = [threads EXCEPT ![t] =
            Outside(IF threads[t].bytes = "sealed" THEN ErrNone ELSE MessageDecryptionError)]
    /\ UNCHANGED <<sharedEngine, mutex, preSharedKeysMap>>

\* what is at rest while the cache is used
CacheFrame ==
    UNCHANGED <<totpVars, engineVars, counterMutex, issued, recoveryVars, pureVars, keyCall>>

\* the steps of a thread inside one of the two functions, but for the lock
Proceed(t) ==
    /\ Lookup(t) \/ Precompute(t) \/ SealAndReturn(t) \/ OpenAndReturn(t)
    /\ CacheFrame

InitCache ==
    LET r == InitCryptoEngine(EngineContext, NoFiles, 1)
    IN  /\ IdleTotp({64}, r.files)
        /\ IdleEngines /\ IdleRecovery /\ IdleSteps /\ IdleCodec /\ IdleKeys
        /\ sharedEngine = r.engine
        /\ counterMutex = NoThread
        /\ issued = <<>>
        /\ threads = [t \in ThreadIds |-> Outside(ErrNone)]
        /\ mutex = NoThread
        /\ preSharedKeysMap = {}

NextCache ==
    \E t \in ThreadIds :
        \/ StartEncrypt(t) /\ CacheFrame
        \/ StartDecrypt(t) /\ CacheFrame
        \/ LockMutex(t) /\ CacheFrame
        \/ Proceed(t)

SpecCache == InitCache /\ [][NextCache]_vars

\* every thread inside a function goes on, and a thread that waits for the
\* mutex gets it if the mutex is free again and again (sync.Mutex hands a
\* starving waiter the lock)
SpecCacheFair ==
    /\ SpecCache
    /\ \A t \in ThreadIds : WF_vars(Proceed(t)) /\ SF_vars(LockMutex(t) /\ CacheFrame)

\* C23, as stated: every call of NewEncryptedMessageWithPubKey and of
\* DecryptWithPublicKey returns; none waits for the mutex of the cache for ever.
C23_EveryCallReturns ==
    \A t \in ThreadIds : (threads[t].pc # "rest") ~> (threads[t].pc = "rest")

\* C23 fails here: a thread waits for the mutex, which no thread inside a
\* function holds: a DecryptWithPublicKey that found no cached key has
\* returned with the mutex locked.
C23_WaitsForNobody ==
    \E t \in ThreadIds :
        /\ threads[t].pc = "lock"
        /\ mutex # NoThread
        /\ \A u \in ThreadIds : threads[u].pc \in {"rest", "lock"}

\* C24, as stated: the mutex is held only from the lookup to the end of the
\* precompute and insert; no thread holds it while it seals or opens, and it
\* is free when no thread is inside that stretch.
C24_HeldOnlyAcrossLookup ==
    /\ \A t \in ThreadIds : threads[t].pc \in {"seal", "open", "rest"} => mutex # t
    /\ mutex # NoThread => threads[mutex].pc \in {"lookup", "precompute"}

\* C24 fails here: DecryptWithPublicKey is at box.Open, on the miss path, and
\* its thread holds the mutex.
C24_OpensUnderLock ==
    \E t \in ThreadIds :
        /\ threads[t].pc = "open"
        /\ threads[t].op = "decrypt"
        /\ threads[t].peer \notin preSharedKeysMap
        /\ mutex = t

(***************************************************************************)
(* The counter field of a Totp.                                            *)
(***************************************************************************)
\* the whole steps of o in the seconds since 1970 at clock reading t, index
\* steps away
StepOf(o, index, t) == (UnixSeconds(t) + index * o.stepSize) \div o.stepSize

\* a step below 2^16 as the eight bytes of the counter field
CounterOf(n) == <<0, 0, 0, 0, 0, 0, n \div 256, n % 256>>

\* C26, as stated: OTP, URL and ToBytes leave every field of the Totp as it was.
C26_ReadersChangeNothing ==
    [][last'.op \in {"OTP", "URL", "ToBytes"} => otp' = otp /\ otpNil' = otpNil]_vars

\* C26, amended: URL and ToBytes leave every field of the Totp as it was; OTP
\* leaves every field but counter as it was, and when it returns a token it has
\* set counter to the step of the current time.
C26_OnlyOTPMovesCounter ==
    [][/\ last'.op \in {"URL", "ToBytes"} => otp' = otp /\ otpNil' = otpNil
       /\ last'.op = "OTP" =>
            /\ otpNil' = otpNil
            /\ otp' = [otp EXCEPT !.counter =
                          IF last'.err = ErrNone THEN CounterOf(StepOf(otp, 0, now)) ELSE @]
      ]_vars

\* OTP has returned a token on a Totp that has failed validations behind it,
\* and the counter is at the step of the current time.
C26_CounterMovedByOTP ==
    /\ last.op = "OTP"
    /\ last.err = ErrNone
    /\ otp.totalVerificationFailures > 0
    /\ otp.counter = CounterOf(StepOf(otp, 0, now))

\* the call that ended in this state derived tokens: an OTP that returned one,
\* or a Validate that compared the code with its three candidates
DerivedTokens(call) ==
    \/ call.op = "OTP" /\ call.err = ErrNone
    \/ call.op = "Validate" /\ call.err \in {ErrNone, errTokenMismatch}

\* C27, as stated: after an OTP call and after a Validate call that derives
\* candidate tokens the counter field is the step of the current time, and a
\* URL call that follows reports that step.
C27_CounterIsCurrentStep ==
    [][/\ DerivedTokens(last') => otp'.counter = CounterOf(StepOf(otp', 0, now'))
       /\ DerivedTokens(last) /\ last'.op = "URL" =>
            last'.result[6] = U64(StepOf(otp, 0, now))
      ]_vars

\* C27 fails here: Validate has accepted a code, and the counter field is the
\* step after the current one.
C27_CounterOneAhead ==
    /\ last.op = "Validate"
    /\ last.err = ErrNone
    /\ otp.counter = CounterOf(StepOf(otp, 1, now))
    /\ otp.counter # CounterOf(StepOf(otp, 0, now))

(***************************************************************************)
(* Lockout and persistence: one Totp validated, serialised and restored    *)
(* while the clock runs through more than a back-off time.                 *)
(***************************************************************************)
\* the clock advances by one step, or by the back-off time or a tick less
LockoutAdvances == {stepTicks, backOffTicks - 1, backOffTicks}

\* a step past the back-off time of a failure at the start
EndOfLockout == 2 * stepTicks + 1 + backOffTicks + stepTicks

TickLockout ==
    /\ \E d \in LockoutAdvances : now + d <= EndOfLockout /\ now' = now + d
    /\ last' = NoCall
    /\ UNCHANGED <<intSize, hmacTable, otpNil, otp, files, stored, storedFrom>>
    /\ UNCHANGED <<engineVars, counterVars, recoveryVars, pureVars, cacheVars, keyCall>>

\* a Totp from NewTOTP half a second into a step, on a machine that has the
\* key files of its issuer
InitLockout ==
    /\ otpNil = FALSE
    /\ otp = NewTOTP(<<97>>, <<83, 49>>, SHA1, 6, 1)
    /\ now = 2 * stepTicks + 1
    /\ intSize = 64
    /\ hmacTable \in DistinctTables
    /\ files = InitCryptoEngine(otp.issuer, NoFiles, 1).files
    /\ stored = NoBlob
    /\ storedFrom = ZeroTotp
    /\ last = NoCall
    /\ IdleEngines /\ IdleCounter /\ IdleRecovery /\ IdleSteps /\ IdleOthers

NextLockout == TickLockout \/ DoValidate \/ DoToBytes \/ DoFromBytes

SpecLockout == InitLockout /\ [][NextLockout]_vars

\* a clock reading with its sub-second part dropped
ToSecond(t) == IF t = ZeroTime THEN ZeroTime ELSE (t \div TicksPerSecond) * TicksPerSecond

\* C28: a Totp restored from the bytes of one with three failures has three
\* failures and the time of the last one to the second, and a Validate on it
\* returns errLockDown for every code, and changes nothing, as long as the
\* clock is not past that time by more than the back-off time.
C28_LockoutRestored ==
    [][/\ /\ last'.op = "TOTPFromBytes"
          /\ last'.err = ErrNone
          /\ storedFrom.totalVerificationFailures = maxFailures
          => /\ otp'.totalVerificationFailures = maxFailures
             /\ otp'.lastVerificationTime = ToSecond(storedFrom.lastVerificationTime)
       /\ /\ last.op = "TOTPFromBytes"
          /\ last.err = ErrNone
          /\ storedFrom.totalVerificationFailures = maxFailures
          /\ last'.op = "Validate"
          /\ last'.code # <<>>
          /\ now <= ToSecond(storedFrom.lastVerificationTime) + backOffTicks
          => last'.err = errLockDown /\ otp' = otp
      ]_vars

\* The code of the current step has been refused with errLockDown on a Totp
\* just restored, whose third failure was at a half second, more than a step
\* and less than the back-off time ago.
C28_RestoredStillLocked ==
    /\ last.op = "Validate"
    /\ last.restored
    /\ last.err = errLockDown
    /\ last.code = TokenAt(0)
    /\ otp.totalVerificationFailures = maxFailures
    /\ now >= otp.lastVerificationTime + stepTicks
    /\ now % TicksPerSecond = 1

(***************************************************************************)
(* The offset stored for the client and the codes accepted: one Totp,      *)
(* validated while the clock runs, under HMAC tables with a period longer  *)
(* than the window of three steps.                                         *)
(***************************************************************************)
\* the tables of one step more than the period, the values of the first steps
\* all different
WideTables ==
    { f \in [0..OraclePeriod -> 0..MaxHmacValue] :
        \A i \in 0..(OraclePeriod - 1) : f[i] = IF i < MaxHmacValue THEN i ELSE MaxHmacValue }

InitWindow ==
    /\ otpNil = FALSE
    /\ otp = NewTOTP(<<97>>, <<83, 49>>, SHA1, 6, 1)
    /\ InitRest({64}, {2 * stepTicks + 1}, WideTables)
    /\ IdleEngines /\ IdleCounter /\ IdleRecovery /\ IdleSteps /\ IdleOthers

NextWindow == TickLockout \/ DoValidate \/ DoOTP

SpecWindow == InitWindow /\ [][NextWindow]_vars

\* the offsets a Totp could hold in place of its own
TwinOffsets == {GoInt(-1), GoInt(0), GoInt(1), GoInt(5)}

\* the token of the step index steps from the step of the clock, whatever the
\* Totp holds in counter and clientOffset
WindowToken(index) == calculateToken(hmacTable, CounterOf(StepOf(otp, index, now)), otp.digits)

\* C29: a Validate call returns what it would return on a Totp that differs
\* in clientOffset only, and, when it is not locked, it accepts the code if and
\* only if it is the token of the step before, at or after the step of the
\* clock.
C29_OffsetIgnored ==
    [][ValidateCall =>
          /\ \A x \in TwinOffsets :
                Validate(hmacTable, otpNil, [otp EXCEPT !.clientOffset = x],
                         last'.code, now).err = last'.err
          /\ last'.err # errLockDown =>
                (last'.err = ErrNone
                    <=> last'.code \in {WindowToken(-1), WindowToken(0), WindowToken(1)})
      ]_vars

\* A Totp resynchronized to the step after has accepted the token of the step
\* of the clock, which is not the token of a step next to it or two steps
\* after, and has refused codes before.
C29_AcceptedAtCentreAfterResync ==
    /\ last.op = "Validate"
    /\ last.err = ErrNone
    /\ otp.clientOffset = GoInt(1)
    /\ otp.totalVerificationFailures > 0
    /\ last.code = WindowToken(0)
    /\ WindowToken(0) \notin {WindowToken(-1), WindowToken(1), WindowToken(2)}
    /\ WindowToken(2) \notin {WindowToken(-1), WindowToken(1)}

(***************************************************************************)
(* Messages with an empty text: a caller that encrypts the message         *)
(* NewMessage returns whatever its error, and a reader that decrypts or    *)
(* restores any record of the context.                                     *)
(***************************************************************************)
\* the texts encrypted: none, and one of a byte
TextsOrNone == {<<>>, <<120>>}

\* m, _ := NewMessage(text, type); engine.NewEncryptedMessage(m); ToBytes()
EncryptUnchecked ==
    \E id \in EngineIds, text \in TextsOrNone :
        /\ engines[id] # NoEngine
        /\ Len(outbox) < MaxMessages
        /\ LET m == NewMessage(text, messageType)
               r == NewEncryptedMessage(engines[id], m.msg)
           IN  /\ engines' = [engines EXCEPT ![id] = r.engine]
               /\ outbox' = Append(outbox, [ bytes |-> EncryptedMessageToBytes(r.m),
                                             msg |-> m.msg, by |-> id ])
        /\ received' = NoReceipt
        /\ UNCHANGED <<totpVars, counterVars, recoveryVars, pureVars, cacheVars, keyCall>>

\* TOTPFromBytes of the newest record, whole, whatever made it
RestoreAny ==
    \E i \in {Len(outbox)} \ {0}, draw \in EngineDraws :
        /\ LET r == TOTPFromBytes(outbox[i].bytes, EngineContext, files, draw, intSize)
           IN  /\ files' = r.files
               /\ received' = [ op |-> "TOTPFromBytes", by |-> 0, from |-> i,
                                damage |-> "none", at |-> 0, msg |-> NilMessage,
                                otp |-> r.otp, err |-> r.err ]
        /\ UNCHANGED <<now, intSize, hmacTable, otpNil, otp, stored, storedFrom, last>>
        /\ UNCHANGED <<engines, outbox, counterVars, recoveryVars, pureVars, cacheVars, keyCall>>

NextEmpty == NewEngine \/ EncryptUnchecked \/ Receive \/ RestoreAny

SpecEmpty == InitEngine /\ [][NextEmpty]_vars

\* C30, as stated: Decrypt returns a message and no error, or no message and an
\* error, also for a whole record whose plain text has fewer than 9 bytes; and
\* TOTPFromBytes of such a record does not panic on a nil message.
C30_MessageOrError ==
    /\ received.op = "Decrypt" => (received.msg.isNil <=> received.err # ErrNone)
    /\ /\ received.op = "TOTPFromBytes"
       /\ Len(messageToBytes(Sent.msg)) < 4 + 4 + 1
       => received.err # errPanic

\* C30 fails here: Decrypt of the whole record of a message with an empty
\* text, by the engine that made it, has returned no message and no error.
C30_NilWithoutError ==
    /\ received.op = "Decrypt"
    /\ received.damage = "none"
    /\ received.by = Sent.by
    /\ Sent.msg.Text = <<>>
    /\ received.msg.isNil
    /\ received.err = ErrNone

====
